---- MODULE Spec2Model ----
(***************************************************************************)
(* Model of photon_weave: the representation state machine of a subsystem  *)
(* (BaseState), the Envelope that pairs a Fock and a Polarization          *)
(* subsystem, the process-wide Config, the index planner of                *)
(* extra/einsum_constructor.py, and the dimension estimator of             *)
(* operation/helpers/fock_dimension_esitmation.py.                         *)
(*                                                                         *)
(* Numbers are exact complex rationals <<re, im, den>> (den > 0, reduced). *)
(* Arrays are functions over 0..n-1, as in the source's 0-based indexing.  *)
(***************************************************************************)
EXTENDS Integers, Sequences, FiniteSets, TLC

VARIABLES subsystem, envelope, composite_envelopes, config, ret, plan, estimator, config_class

vars == <<subsystem, envelope, composite_envelopes, config, ret, plan, estimator,
          config_class>>

\* ------------------------------------------------------------------------
\* Bounds of the model
\* ------------------------------------------------------------------------
MaxDim == 3
MaxDraws == 1
MaxSlots == 3
MaxMatrixSlots == 2
MaxEstimate == 8
MaxReads == 3

\* ------------------------------------------------------------------------
\* Exact complex rational arithmetic
\* ------------------------------------------------------------------------
Abs(x) == IF x < 0 THEN -x ELSE x

RECURSIVE GCD(_, _)
GCD(m, n) == IF n = 0 THEN m ELSE GCD(n, m % n)

Cx(a, b, d) ==
    IF d = 1 THEN <<a, b, 1>>
    ELSE LET g == GCD(GCD(Abs(a), Abs(b)), d)
         IN  <<a \div g, b \div g, d \div g>>

Zero == <<0, 0, 1>>
One == <<1, 0, 1>>
MinusOne == <<-1, 0, 1>>
ImagI == <<0, 1, 1>>
MinusI == <<0, -1, 1>>

\* sums are formed over the least common denominator
CAdd(x, y) ==
    IF x = Zero THEN y
    ELSE IF y = Zero THEN x
    ELSE LET g == GCD(x[3], y[3])
             a == y[3] \div g
             b == x[3] \div g
         IN  Cx(x[1] * a + y[1] * b, x[2] * a + y[2] * b, x[3] * a)
CNeg(x) == <<-x[1], -x[2], x[3]>>
CSub(x, y) == CAdd(x, CNeg(y))
CMul(x, y) ==
    IF x = Zero \/ y = Zero THEN Zero
    ELSE IF x = One THEN y
    ELSE IF y = One THEN x
    ELSE Cx(x[1] * y[1] - x[2] * y[2], x[1] * y[2] + x[2] * y[1], x[3] * y[3])
CConj(x) == <<x[1], -x[2], x[3]>>
CReal(x) == Cx(x[1], 0, x[3])
\* |x|^2 as a real rational
CAbs2(x) == Cx(x[1] * x[1] + x[2] * x[2], 0, x[3] * x[3])
\* x / y for y # 0
CDiv(x, y) ==
    LET n == y[1] * y[1] + y[2] * y[2]
        p == CMul(x, CConj(y))
    IN  Cx(p[1] * y[3] * y[3], p[2] * y[3] * y[3], p[3] * n)
\* order on real rationals
RLess(x, y) == x[1] * y[3] < y[1] * x[3]
\* |x| for a real rational x
RAbs(x) == <<Abs(x[1]), 0, x[3]>>
\* a < t for a real rational a >= 0 and a small tolerance t > 0; the wide
\* products are only formed when a's denominator is as fine as t's
BelowTol(a, t) ==
    IF a[1] = 0 THEN TRUE
    ELSE IF a[3] * t[1] < t[3] THEN FALSE
    ELSE a[1] * t[3] < t[1] * a[3]

RECURSIVE ISqrtFrom(_, _)
\* Newton's iteration down from r >= sqrt(n) to the integer square root
ISqrtFrom(n, r) ==
    LET q == (r + n \div r) \div 2
    IN  IF q >= r THEN r ELSE ISqrtFrom(n, q)
ISqrt(n) == IF n = 0 THEN 0 ELSE ISqrtFrom(n, n)
IsSquare(n) == ISqrt(n) * ISqrt(n) = n
\* square root of a non-negative real rational that is a perfect square
RSqrt(x) == Cx(ISqrt(x[1]), 0, ISqrt(x[3]))
HasRSqrt(x) == x[2] = 0 /\ x[1] >= 0 /\ IsSquare(x[1]) /\ IsSquare(x[3])
\* |x|
CAbs(x) == IF x[2] = 0 THEN RAbs(x) ELSE RSqrt(CAbs2(x))

\* F applied to the value of v, which is computed once and in full (the
\* comparison x = x enumerates every entry of a function)
With(v, F(_)) == CHOOSE r \in {F(t) : t \in {x \in {v} : x = x}} : TRUE

RECURSIVE SumRange(_, _, _)
\* f[lo] + ... + f[hi]
SumRange(f, lo, hi) ==
    IF lo > hi THEN Zero
    ELSE IF lo = hi THEN f[lo]
    ELSE LET mid == (lo + hi) \div 2
         IN  CAdd(SumRange(f, lo, mid), SumRange(f, mid + 1, hi))
\* f[0] + ... + f[n-1]
SumTo(f, n) == SumRange(f, 0, n - 1)

\* ------------------------------------------------------------------------
\* Vectors (d,1) and matrices (d,d)
\* ------------------------------------------------------------------------
NoArray == <<>>
NoLabel == -1
NoIndex == -1

Len0(a) == Cardinality(DOMAIN a)

Basis(d, k) == [i \in 0..(d - 1) |-> IF i = k THEN One ELSE Zero]
VScale(v, c) == [i \in DOMAIN v |-> CMul(v[i], c)]
Outer(v) == [i \in DOMAIN v |-> [j \in DOMAIN v |-> CMul(v[i], CConj(v[j]))]]
Identity(d) == [i \in 0..(d - 1) |-> [j \in 0..(d - 1) |-> IF i = j THEN One ELSE Zero]]
Projector(d, k) == [i \in 0..(d - 1) |-> [j \in 0..(d - 1) |-> IF i = k /\ j = k THEN One ELSE Zero]]
ZeroMatrix(d) == [i \in 0..(d - 1) |-> [j \in 0..(d - 1) |-> Zero]]

MatMul(A, B) ==
    [i \in DOMAIN A |-> [j \in DOMAIN A |->
        SumTo([k \in DOMAIN A |-> CMul(A[i][k], B[k][j])], Len0(A))]]
MatAdd(A, B) == [i \in DOMAIN A |-> [j \in DOMAIN A |-> CAdd(A[i][j], B[i][j])]]
Dagger(A) == [i \in DOMAIN A |-> [j \in DOMAIN A |-> CConj(A[j][i])]]
Trace(A) == SumTo([k \in DOMAIN A |-> A[k][k]], Len0(A))
MScale(A, c) == [i \in DOMAIN A |-> [j \in DOMAIN A |-> CMul(A[i][j], c)]]
MatVec(A, v) ==
    [i \in DOMAIN A |-> SumTo([k \in DOMAIN A |-> CMul(A[i][k], v[k])], Len0(A))]
Shape(A) == <<Len0(A), Len0(A)>>

RECURSIVE MatSum(_, _)
\* ms[1] + ... + ms[n], a sequence of (d,d) matrices
MatSum(ms, d) ==
    IF ms = <<>> THEN ZeroMatrix(d)
    ELSE MatAdd(MatSum(Tail(ms), d), Head(ms))

\* ------------------------------------------------------------------------
\* ExpansionLevel
\* ------------------------------------------------------------------------
Label == 0
Vector == 1
Matrix == 2
Levels == {Label, Vector, Matrix}

\* ------------------------------------------------------------------------
\* Config (process-wide singleton): seed, PRNG key, contraction toggle
\* ------------------------------------------------------------------------
\* jax.random.PRNGKey(seed): a key is the seed followed by the path of splits
PRNGKey(seed) == <<seed>>
\* jax.random.split(key): two new keys derived from key
split(key) == <<Append(key, 0), Append(key, 1)>>
\* Config.random_key: key, self._key = split(self._key); return key
random_key(c) == [key |-> split(c._key)[1], config |-> [c EXCEPT !._key = split(c._key)[2]]]
\* Config.set_seed
set_seed(c, seed) == [c EXCEPT !._random_seed = seed, !._key = PRNGKey(seed)]
\* Config.contractions: the global toggle read after Kraus/POVM application
contractions(c) == c._contractions

\* ------------------------------------------------------------------------
\* BaseState (Fock / Polarization subsystem)
\* ------------------------------------------------------------------------
Tol == <<1, 0, 1000000>>
Phases == {One, MinusOne, ImagI}

Ok(r) == [s |-> r, exc |-> ""]
Raise(r, e) == [s |-> r, exc |-> e]

\* Fock.expand / Polarization.expand
expand(r) ==
    IF r.measured THEN Raise(r, "AlreadyMeasured")
    ELSE IF r.expansion_level = Label
    THEN Ok([r EXCEPT !.state_vector = Basis(r.dimensions, r.label),
                      !.label = NoLabel,
                      !.expansion_level = Vector])
    ELSE IF r.expansion_level = Vector
    THEN Ok([r EXCEPT !.density_matrix = Outer(r.state_vector),
                      !.state_vector = NoArray,
                      !.expansion_level = Matrix])
    ELSE Raise(r, "InvariantViolation")

\* while self.expansion_level < ExpansionLevel.Matrix: self.expand()
RECURSIVE expand_to_matrix(_)
expand_to_matrix(r) ==
    IF r.expansion_level < Matrix
    THEN LET e == expand(r)
         IN  IF e.exc # "" THEN e ELSE expand_to_matrix(e.s)
    ELSE Ok(r)

\* Fock._set_measured / Polarization._set_measured
subsystem_set_measured(r) ==
    [r EXCEPT !.measured = TRUE, !.label = NoLabel, !.state_vector = NoArray,
              !.density_matrix = NoArray, !.index = NoIndex]

\* Fock.extract / Polarization.extract: take a position, release private data
extract(r, index) ==
    [r EXCEPT !.index = index, !.label = NoLabel, !.state_vector = NoArray,
              !.density_matrix = NoArray]

\* jnp.abs(jnp.trace(rho @ rho) - 1) < tol
is_pure(rho, tol) ==
    BelowTol(RAbs(CReal(CSub(Trace(MatMul(rho, rho)), One))), tol)

\* jnp.linalg.eigh on a pure density matrix, column of the eigenvalue within
\* tol of 1: the unit eigenvector, fixed only up to a unit-modulus factor
FirstNonZeroDiag(rho) == CHOOSE j \in DOMAIN rho :
    rho[j][j] # Zero /\ \A i \in DOMAIN rho : i < j => rho[i][i] = Zero
eigh_pure(rho, eig_phase) ==
    LET j == FirstNonZeroDiag(rho)
        n == RSqrt(rho[j][j])
    IN  [i \in DOMAIN rho |-> CMul(CDiv(rho[i][j], n), eig_phase)]

\* phase = jnp.exp(-1j * jnp.angle(self.state_vector[0]))
phase_of(v) ==
    IF v[0] = Zero THEN One
    ELSE CDiv(CConj(v[0]), CAbs(v[0]))

\* jnp.where(self.state_vector == 1)[0]
ones_of(v) == {i \in DOMAIN v : v[i] = One}

\* contract's Matrix branch without the purity test
contract_matrix_unchecked(r, final, tol, eig_phase) ==
    IF r.expansion_level = Matrix /\ final < Matrix
    THEN IF r.density_matrix = NoArray THEN Raise(r, "AssertionError")
         ELSE LET v == eigh_pure(r.density_matrix, eig_phase)
              IN  Ok([r EXCEPT !.state_vector = VScale(v, phase_of(v)),
                               !.density_matrix = NoArray,
                               !.expansion_level = Vector])
    ELSE Ok(r)

contract_matrix(r, final, tol, eig_phase) ==
    IF r.expansion_level = Matrix /\ final < Matrix
    THEN IF r.density_matrix = NoArray THEN Raise(r, "AssertionError")
         ELSE IF is_pure(r.density_matrix, tol)
         THEN LET v == eigh_pure(r.density_matrix, eig_phase)
              IN  Ok([r EXCEPT !.state_vector = VScale(v, phase_of(v)),
                               !.density_matrix = NoArray,
                               !.expansion_level = Vector])
         ELSE Ok(r)
    ELSE Ok(r)

\* contract's Vector branch without the release of state_vector
contract_vector_stale(r, final) ==
    IF r.expansion_level = Vector /\ final < Vector
    THEN IF r.state_vector = NoArray THEN Raise(r, "AssertionError")
         ELSE IF Cardinality(ones_of(r.state_vector)) = 1
         THEN Ok([r EXCEPT !.label = CHOOSE i \in ones_of(r.state_vector) : TRUE,
                           !.expansion_level = Label])
         ELSE Ok(r)
    ELSE Ok(r)

contract_vector(r, final) ==
    IF r.expansion_level = Vector /\ final < Vector
    THEN IF r.state_vector = NoArray THEN Raise(r, "AssertionError")
         ELSE IF Cardinality(ones_of(r.state_vector)) = 1
         THEN Ok([r EXCEPT !.label = CHOOSE i \in ones_of(r.state_vector) : TRUE,
                           !.state_vector = NoArray,
                           !.expansion_level = Label])
         ELSE Ok(r)
    ELSE Ok(r)

\* BaseState.contract
contract(r, final, tol, eig_phase) ==
    LET m == contract_matrix(r, final, tol, eig_phase)
    IN  IF m.exc # "" THEN m ELSE contract_vector(m.s, final)

\* photon_weave._math.ops.kraus_identity_check: sum of K^dagger K is identity
kraus_identity_check(operators) ==
    LET d == Len0(operators[1])
    IN  MatSum([i \in DOMAIN operators |->
                    MatMul(Dagger(operators[i]), operators[i])], d) = Identity(d)

\* photon_weave._math.ops.apply_kraus: sum of K rho K^dagger
ops_apply_kraus(rho, operators) ==
    MatSum([i \in DOMAIN operators |->
                MatMul(operators[i], MatMul(rho, Dagger(operators[i])))], Len0(rho))

\* the factors eigh can give the eigenvector, where contract calls it
EigPhases(r, final) ==
    IF r.expansion_level = Matrix /\ final < Matrix /\ r.density_matrix # NoArray
    THEN IF is_pure(r.density_matrix, Tol) THEN Phases ELSE {One}
    ELSE {One}

\* BaseState.apply_kraus up to the assignment of self.state
apply_kraus_state(r, operators, identity_check) ==
    LET e == expand_to_matrix(r)
    IN  IF e.exc # "" THEN e
        ELSE IF \E i \in DOMAIN operators :
                    Shape(operators[i]) # <<r.dimensions, r.dimensions>>
        THEN Raise(e.s, "ValueError")
        ELSE IF ~kraus_identity_check(operators)
        THEN Raise(e.s, "ValueError")
        ELSE IF e.s.density_matrix = NoArray THEN Raise(e.s, "TypeError")
        ELSE Ok([e.s EXCEPT !.density_matrix =
                    ops_apply_kraus(e.s.density_matrix, operators)])

\* BaseState.apply_kraus
apply_kraus(r, operators, identity_check, c, eig_phase) ==
    LET a == apply_kraus_state(r, operators, identity_check)
    IN  IF a.exc # "" THEN a
        ELSE IF contractions(c) THEN contract(a.s, Label, Tol, eig_phase)
        ELSE a

\* probabilities = Tr(E_i rho).real / sum
povm_probabilities(rho, operators) ==
    LET raw == [i \in DOMAIN operators |-> CReal(Trace(MatMul(operators[i], rho)))]
        total == SumTo([k \in 0..(Len(operators) - 1) |-> raw[k + 1]], Len(operators))
    IN  [i \in DOMAIN operators |-> CDiv(raw[i], total)]

\* outcomes jax.random.choice / np.random.choice can return: those of
\* non-zero probability (p is a function over the outcomes)
choice(p) == {i \in DOMAIN p : p[i] # Zero}

\* E rho E^dagger / Tr(E rho E^dagger)
povm_collapse(rho, E) ==
    LET m == MatMul(E, MatMul(rho, Dagger(E)))
        tr == Trace(m)
    IN  [i \in DOMAIN m |-> [j \in DOMAIN m |-> CDiv(m[i][j], tr)]]

\* probabilities of the number outcomes of a standalone subsystem
number_probabilities(r) ==
    IF r.expansion_level = Label
    THEN [k \in 0..(r.dimensions - 1) |-> IF k = r.label THEN One ELSE Zero]
    ELSE IF r.expansion_level = Vector
    THEN [k \in 0..(r.dimensions - 1) |-> CAbs2(r.state_vector[k])]
    ELSE [k \in 0..(r.dimensions - 1) |-> CReal(r.density_matrix[k][k])]

\* ------------------------------------------------------------------------
\* Envelope
\* ------------------------------------------------------------------------
FOCK == "fock"
POLARIZATION == "polarization"
Subsystems == {FOCK, POLARIZATION}
NoComposite == "None"

\* np.kron with its two operands exchanged
kron_vector_swapped(a, b) ==
    [i \in 0..(Len0(a) * Len0(b) - 1) |-> CMul(b[i \div Len0(a)], a[i % Len0(a)])]

\* np.kron of two vectors / of two matrices
kron_vector(a, b) ==
    [i \in 0..(Len0(a) * Len0(b) - 1) |-> CMul(a[i \div Len0(b)], b[i % Len0(b)])]
kron_matrix(A, B) ==
    [i \in 0..(Len0(A) * Len0(B) - 1) |-> [j \in 0..(Len0(A) * Len0(B) - 1) |->
        CMul(A[i \div Len0(B)][j \div Len0(B)], B[i % Len0(B)][j % Len0(B)])]]

\* np.linalg.norm squared: sum of |entry|^2 of a vector / of a matrix
norm2_vector(v) == SumTo([i \in DOMAIN v |-> CAbs2(v[i])], Len0(v))
norm2_matrix(A) ==
    SumTo([i \in DOMAIN A |-> SumTo([j \in DOMAIN A |-> CAbs2(A[i][j])], Len0(A))], Len0(A))

\* np.isclose(x, 1.0): |x - 1| <= atol + rtol * 1 with atol 1e-8, rtol 1e-5
isclose_one(x) ==
    BelowTol(RAbs(CSub(x, One)), <<1001, 0, 100000000>>)

\* probabilities of Envelope.measure on composite_vector: reshape to
\* (fock dims, 2) and sum |.|^2 over the polarization axis
measure_vector_probabilities(cv, fd) ==
    [k \in 0..(fd - 1) |-> CAdd(CAbs2(cv[2 * k]), CAbs2(cv[2 * k + 1]))]
\* probabilities of Envelope.measure on composite_matrix: reshape to
\* (fd, 2, fd, 2), trace over the polarization axes, |diagonal|
measure_matrix_probabilities(cm, fd) ==
    [k \in 0..(fd - 1) |->
        CAbs(CAdd(cm[2 * k][2 * k], cm[2 * k + 1][2 * k + 1]))]
prob_sum(p) == SumTo(p, Len0(p))

\* ------------------------------------------------------------------------
\* Methods, as functions of the whole program state w ("world"):
\*   w.sub  the two subsystems, w.env the envelope, w.ce the envelopes list
\*   of the composite envelope, w.cfg the Config, w.exc the exception raised
\*   ("" when the call returned), w.outcome / w.others the returned values
\* ------------------------------------------------------------------------
NoOutcome == -1
ENV == "env"
OTHER_ENVELOPE == "other"

World == [sub |-> subsystem, env |-> envelope, ce |-> composite_envelopes,
          cfg |-> config, exc |-> "", outcome |-> NoOutcome, others |-> {}]

WRaise(w, e) == [w EXCEPT !.exc = e]
WSub(w, s, res) == [w EXCEPT !.sub[s] = res.s, !.exc = res.exc]

\* operators supplied by the operation classes (operator provider)
Shift(d) == [i \in 0..(d - 1) |-> [j \in 0..(d - 1) |->
                IF i = (j + 1) % d THEN One ELSE Zero]]
Lower(d) == [i \in 0..(d - 1) |-> [j \in 0..(d - 1) |->
                IF j = i + 1 THEN One ELSE Zero]]
PauliZ == [i \in 0..1 |-> [j \in 0..1 |->
                IF i # j THEN Zero ELSE IF i = 0 THEN One ELSE MinusOne]]
compute_operator(operation, d) ==
    CASE operation.name = "Identity" -> Identity(d)
      [] operation.name = "Shift" -> Shift(d)
      [] operation.name = "Lower" -> Lower(d)
      [] operation.name = "X" -> Shift(2)
      [] operation.name = "Z" -> PauliZ

FockOperations == {[kind |-> FOCK, name |-> "Shift", renormalize |-> FALSE],
                   [kind |-> FOCK, name |-> "Lower", renormalize |-> TRUE]}
PolarizationOperations == {[kind |-> POLARIZATION, name |-> "X", renormalize |-> FALSE]}
Operations == FockOperations \cup PolarizationOperations

\* Fock.measure: number measurement of the standalone Fock subsystem
fock_measure(w, non_destructive, outcome) ==
    LET r == w.sub[FOCK]
    IN  IF r.measured THEN WRaise(w, "AlreadyMeasured")
        ELSE LET d == IF r.expansion_level = Label THEN w.cfg
                      ELSE random_key(w.cfg).config
                 m == IF non_destructive THEN r ELSE subsystem_set_measured(r)
             IN  [w EXCEPT !.sub[FOCK] = m, !.cfg = d, !.outcome = outcome,
                           !.others = {FOCK}]
fock_measure_outcomes(w) ==
    IF w.sub[FOCK].measured THEN {NoOutcome}
    ELSE choice(number_probabilities(w.sub[FOCK]))

\* Fock.apply_operation / Polarization.apply_operation on a standalone subsystem
subsystem_apply_operation(r, operation) ==
    IF r.measured THEN Raise(r, "AlreadyMeasured")
    ELSE LET e == IF r.expansion_level = Label THEN expand(r).s ELSE r
             U == compute_operator(operation, r.dimensions)
         IN  IF e.expansion_level = Vector
             THEN LET v == MatVec(U, e.state_vector)
                      nf == RSqrt(norm2_vector(v))
                  IN  Ok([e EXCEPT !.state_vector =
                        IF operation.renormalize
                        THEN [i \in DOMAIN v |-> CDiv(v[i], nf)]
                        ELSE v])
             ELSE LET m == MatMul(U, MatMul(e.density_matrix, Dagger(U)))
                      tr == Trace(m)
                  IN  Ok([e EXCEPT !.density_matrix =
                        IF operation.renormalize
                        THEN [i \in DOMAIN m |-> [j \in DOMAIN m |-> CDiv(m[i][j], tr)]]
                        ELSE m])

\* Envelope._set_measured
envelope_set_measured(w, remove_composite) ==
    LET detach == w.env.composite_envelope # NoComposite /\ remove_composite
    IN  [w EXCEPT !.ce = IF detach THEN SelectSeq(w.ce, LAMBDA x : x # ENV) ELSE @,
                  !.env.composite_envelope = IF detach THEN NoComposite ELSE @,
                  !.env.measured = TRUE,
                  !.env.composite_vector = NoArray,
                  !.env.composite_matrix = NoArray,
                  !.sub[FOCK] = subsystem_set_measured(@),
                  !.sub[POLARIZATION] = subsystem_set_measured(@)]

\* BaseState.measure_POVM
measure_POVM_outcomes(w, s, operators) ==
    LET e == expand_to_matrix(w.sub[s])
    IN  IF \/ w.sub[s].index # NoIndex
           \/ e.exc # ""
           \/ e.s.density_matrix = NoArray
           \/ \E i \in DOMAIN operators :
                  Shape(operators[i]) # <<e.s.dimensions, e.s.dimensions>>
        THEN {NoOutcome}
        ELSE {i - 1 : i \in choice(povm_probabilities(e.s.density_matrix, operators))}

\* BaseState.measure_POVM up to the final contraction
measure_POVM_state(w, s, operators, destructive, partial, outcome, fock_outcome) ==
    IF w.sub[s].index # NoIndex
    THEN \* self.envelope.measure_POVM: Envelope has no such method
         WRaise(w, "AttributeError")
    ELSE
    LET e == expand_to_matrix(w.sub[s])
    IN  IF e.exc # "" THEN WSub(w, s, e)
        ELSE IF e.s.density_matrix = NoArray THEN WSub(w, s, Raise(e.s, "AssertionError"))
        ELSE IF \E i \in DOMAIN operators :
                    Shape(operators[i]) # <<e.s.dimensions, e.s.dimensions>>
        THEN WSub(w, s, Raise(e.s, "TypeError"))
        ELSE
        LET E == operators[outcome + 1]
            collapsed == IF destructive THEN subsystem_set_measured(e.s)
                         ELSE [e.s EXCEPT !.density_matrix = povm_collapse(@, E),
                                          !.expansion_level = Matrix]
            w1 == [w EXCEPT !.sub[s] = collapsed,
                            !.cfg = random_key(w.cfg).config]
            \* if not partial: out = self.envelope.fock.measure()
            w2 == [(IF partial THEN w1 ELSE fock_measure(w1, FALSE, fock_outcome))
                        EXCEPT !.outcome = outcome]
        IN  w2

measure_POVM(w, s, operators, destructive, partial, outcome, fock_outcome, eig_phase) ==
    LET w2 == measure_POVM_state(w, s, operators, destructive, partial,
                                 outcome, fock_outcome)
    IN  IF w2.exc # "" THEN w2
        ELSE IF contractions(w2.cfg) /\ ~destructive
        THEN WSub(w2, s, contract(w2.sub[s], Label, Tol, eig_phase))
        ELSE w2

\* the outcomes the paired Fock.measure call inside measure_POVM can give
measure_POVM_fock_outcomes(w, s, operators, destructive, partial, outcome) ==
    IF partial \/ outcome = NoOutcome THEN {NoOutcome}
    ELSE LET e == expand_to_matrix(w.sub[s])
             collapsed == IF destructive THEN subsystem_set_measured(e.s)
                          ELSE [e.s EXCEPT !.density_matrix =
                                    povm_collapse(@, operators[outcome + 1]),
                                           !.expansion_level = Matrix]
         IN  fock_measure_outcomes([w EXCEPT !.sub[s] = collapsed])

\* Envelope.combine
RECURSIVE expand_until(_, _)
\* while r.expansion_level < level: r.expand()
expand_until(r, level) ==
    IF r.expansion_level < level
    THEN LET e == expand(r)
         IN  IF e.exc # "" THEN e ELSE expand_until(e.s, level)
    ELSE Ok(r)

envelope_combine(w) ==
    LET w1 == IF w.sub[FOCK].expansion_level = 0
              THEN WSub(w, FOCK, expand(w.sub[FOCK])) ELSE w
        w2 == IF w1.exc = "" /\ w1.sub[POLARIZATION].expansion_level = 0
              THEN WSub(w1, POLARIZATION, expand(w1.sub[POLARIZATION])) ELSE w1
        w3 == IF w2.exc = ""
              THEN WSub(w2, FOCK, expand_until(w2.sub[FOCK],
                                               w2.sub[POLARIZATION].expansion_level))
              ELSE w2
        w4 == IF w3.exc = ""
              THEN WSub(w3, POLARIZATION, expand_until(w3.sub[POLARIZATION],
                                                       w3.sub[FOCK].expansion_level))
              ELSE w3
        f == w4.sub[FOCK]
        p == w4.sub[POLARIZATION]
    IN  IF w4.exc # "" THEN w4
        ELSE IF f.expansion_level = 1 /\ p.expansion_level = 1
        THEN IF f.state_vector = NoArray \/ p.state_vector = NoArray
             THEN WRaise(w4, "TypeError")
             ELSE [w4 EXCEPT !.env.composite_vector =
                                 kron_vector(f.state_vector, p.state_vector),
                             !.sub[FOCK] = extract(f, 0),
                             !.sub[POLARIZATION] = extract(p, 1)]
        ELSE IF f.expansion_level = 2 /\ p.expansion_level = 2
        THEN IF f.density_matrix = NoArray \/ p.density_matrix = NoArray
             THEN WRaise(w4, "TypeError")
             ELSE [w4 EXCEPT !.env.composite_matrix =
                                 kron_matrix(f.density_matrix, p.density_matrix),
                             !.sub[FOCK] = extract(f, 0),
                             !.sub[POLARIZATION] = extract(p, 1)]
        ELSE w4

\* Envelope.apply_operation
padded_operator(w, operation) ==
    IF operation.kind = FOCK
    THEN kron_matrix(compute_operator(operation, w.sub[FOCK].dimensions), Identity(2))
    ELSE kron_matrix(Identity(w.sub[FOCK].dimensions), compute_operator(operation, 2))

envelope_apply_operation(w, operation) ==
    LET standalone == w.env.composite_vector = NoArray /\ w.env.composite_matrix = NoArray
        operator == padded_operator(w, operation)
        renorm == operation.kind = FOCK /\ operation.renormalize
    IN  IF standalone
        THEN WSub(w, operation.kind,
                  subsystem_apply_operation(w.sub[operation.kind], operation))
        ELSE IF w.env.composite_vector # NoArray
        THEN LET v == MatVec(operator, w.env.composite_vector)
                 nf == RSqrt(norm2_vector(v))
             IN  [w EXCEPT !.env.composite_vector =
                    IF renorm THEN [i \in DOMAIN v |-> CDiv(v[i], nf)] ELSE v]
        ELSE LET m == MatMul(operator, MatMul(w.env.composite_matrix, Dagger(operator)))
                 nf == RSqrt(norm2_matrix(m))
             IN  [w EXCEPT !.env.composite_matrix =
                    IF renorm
                    THEN [i \in DOMAIN m |-> [j \in DOMAIN m |-> CDiv(m[i][j], nf)]]
                    ELSE m]

\* the operation's renormalisation divides by a non-zero rational norm
norm_representable(w, operation) ==
    LET standalone == w.env.composite_vector = NoArray /\ w.env.composite_matrix = NoArray
        r == w.sub[operation.kind]
        e == IF r.expansion_level = Label /\ ~r.measured THEN expand(r).s ELSE r
        U == IF standalone THEN compute_operator(operation, r.dimensions)
             ELSE padded_operator(w, operation)
        n == IF standalone
             THEN IF e.expansion_level = Vector
                  THEN norm2_vector(MatVec(U, e.state_vector))
                  ELSE CMul(Trace(MatMul(U, MatMul(e.density_matrix, Dagger(U)))),
                            Trace(MatMul(U, MatMul(e.density_matrix, Dagger(U)))))
             ELSE IF w.env.composite_vector # NoArray
             THEN norm2_vector(MatVec(U, w.env.composite_vector))
             ELSE norm2_matrix(MatMul(U, MatMul(w.env.composite_matrix, Dagger(U))))
    IN  IF ~(operation.kind = FOCK /\ operation.renormalize) THEN TRUE
        ELSE IF standalone /\ r.measured THEN TRUE
        ELSE n # Zero /\ HasRSqrt(n)

\* Envelope.measure
envelope_probabilities(w) ==
    IF w.env.composite_vector # NoArray
    THEN measure_vector_probabilities(w.env.composite_vector, w.sub[FOCK].dimensions)
    ELSE measure_matrix_probabilities(w.env.composite_matrix, w.sub[FOCK].dimensions)

envelope_measure_outcomes(w) ==
    IF w.env.measured THEN {NoOutcome}
    ELSE IF w.env.composite_vector # NoArray \/ w.env.composite_matrix # NoArray
    THEN IF isclose_one(prob_sum(envelope_probabilities(w)))
         THEN choice(envelope_probabilities(w)) ELSE {NoOutcome}
    ELSE fock_measure_outcomes(w)

\* Envelope.measure that marks the envelope measured whatever non_destructive
envelope_measure_destructive(w, non_destructive, remove_composite, outcome) ==
    LET sampled ==
            IF w.env.composite_vector # NoArray
            THEN IF ~isclose_one(prob_sum(envelope_probabilities(w)))
                 THEN WRaise(w, "AssertionError")
                 ELSE [w EXCEPT !.outcome = outcome]
            ELSE IF w.env.composite_matrix # NoArray
            THEN IF ~isclose_one(prob_sum(envelope_probabilities(w)))
                 THEN WRaise(w, "ValueError")
                 ELSE [w EXCEPT !.outcome = outcome]
            ELSE fock_measure(w, non_destructive, outcome)
    IN  IF w.env.measured THEN WRaise(w, "EnvelopeAlreadyMeasuredException")
        ELSE IF sampled.exc # "" THEN sampled
        ELSE envelope_set_measured(sampled, remove_composite)

envelope_measure(w, non_destructive, remove_composite, outcome) ==
    LET sampled ==
            IF w.env.composite_vector # NoArray
            THEN IF ~isclose_one(prob_sum(envelope_probabilities(w)))
                 THEN WRaise(w, "AssertionError")
                 ELSE [w EXCEPT !.outcome = outcome]
            ELSE IF w.env.composite_matrix # NoArray
            THEN IF ~isclose_one(prob_sum(envelope_probabilities(w)))
                 THEN WRaise(w, "ValueError")
                 ELSE [w EXCEPT !.outcome = outcome]
            ELSE fock_measure(w, non_destructive, outcome)
    IN  IF w.env.measured THEN WRaise(w, "EnvelopeAlreadyMeasuredException")
        ELSE IF sampled.exc # "" THEN sampled
        ELSE IF ~non_destructive THEN envelope_set_measured(sampled, remove_composite)
        ELSE sampled

\* ------------------------------------------------------------------------
\* Inputs
\* ------------------------------------------------------------------------
Seeds == {7}
FockDims == 2..MaxDim

\* (3|0> + 4|1>) / 5 : a normalised vector that is not a basis state
Superposition(d) ==
    [i \in 0..(d - 1) |-> IF i = 0 THEN <<3, 0, 5>> ELSE IF i = 1 THEN <<4, 0, 5>> ELSE Zero]
\* diag(3/7, 4/7, 0, ...) : a density matrix that is not pure
Mixed(d) ==
    [i \in 0..(d - 1) |-> [j \in 0..(d - 1) |->
        IF i # j THEN Zero ELSE IF i = 0 THEN <<3, 0, 7>>
        ELSE IF i = 1 THEN <<4, 0, 7>> ELSE Zero]]

VectorInputs(d) ==
    {Basis(d, k) : k \in 0..(d - 1)}
        \cup {VScale(Basis(d, d - 1), MinusOne), VScale(Basis(d, 0), ImagI),
              Superposition(d)}
MatrixInputs(d) == {Outer(v) : v \in VectorInputs(d)} \cup {Mixed(d)}

NewSubsystem(d) ==
    [dimensions |-> d, expansion_level |-> Label, label |-> 0,
     state_vector |-> NoArray, density_matrix |-> NoArray,
     index |-> NoIndex, measured |-> FALSE]

\* the subsystems a user can prepare through the state setter
SubsystemInputs(d) ==
    {[NewSubsystem(d) EXCEPT !.label = k] : k \in 0..(d - 1)}
    \cup {[NewSubsystem(d) EXCEPT !.expansion_level = Vector, !.label = NoLabel,
                                  !.state_vector = v] : v \in VectorInputs(d)}
    \cup {[NewSubsystem(d) EXCEPT !.expansion_level = Matrix, !.label = NoLabel,
                                  !.density_matrix = m] : m \in MatrixInputs(d)}

\* the states an Envelope's subsystems are prepared in: one per level
EnvelopeInputs(d) ==
    {r \in SubsystemInputs(d) :
        IF r.expansion_level = Label THEN r.label \in {0, d - 1}
        ELSE IF r.expansion_level = Vector THEN r.state_vector = Superposition(d)
        ELSE r.density_matrix = Mixed(d)}
PolarizationInputs == {r \in EnvelopeInputs(2) : r.label # 1}

RECURSIVE ProjectorList(_, _)
ProjectorList(d, n) ==
    IF n = 0 THEN <<>> ELSE Append(ProjectorList(d, n - 1), Projector(d, n - 1))

OperatorSetNames == {"identity", "projectors", "shift", "incomplete", "misshaped"}
OperatorSet(name, d) ==
    CASE name = "identity" -> <<Identity(d)>>
      [] name = "projectors" -> ProjectorList(d, d)
      [] name = "shift" -> <<Shift(d)>>
      [] name = "incomplete" -> <<Projector(d, 0)>>
      [] name = "misshaped" -> <<Identity(d + 1)>>
POVMSetNames == {"identity", "projectors", "misshaped"}

PlanIdle == [pc |-> "idle"]
NoEstimator == [pc |-> "idle"]
ConfigIdle == [_instance |-> 0]

InitWith(fock_inputs, polarization_inputs, composite_choices) ==
    /\ \E f \in fock_inputs : \E p \in polarization_inputs :
           subsystem = [s \in Subsystems |-> IF s = FOCK THEN f ELSE p]
    /\ \E in_composite \in composite_choices :
        /\ envelope = [composite_vector |-> NoArray, composite_matrix |-> NoArray,
                       composite_envelope |-> IF in_composite THEN "ce" ELSE NoComposite,
                       measured |-> FALSE]
        /\ composite_envelopes = IF in_composite THEN <<ENV, OTHER_ENVELOPE>>
                                 ELSE <<OTHER_ENVELOPE>>
    /\ \E seed \in Seeds : \E c \in BOOLEAN :
           config = [_random_seed |-> seed, _key |-> PRNGKey(seed), _contractions |-> c]
    /\ ret = [op |-> "init", target |-> "", args |-> <<>>, exc |-> "",
              outcome |-> NoOutcome, others |-> {}]
    /\ plan = PlanIdle
    /\ estimator = NoEstimator
    /\ config_class = ConfigIdle

\* an Envelope with its Fock and Polarization, alone or in a composite envelope
Init ==
    InitWith(UNION {EnvelopeInputs(d) : d \in FockDims}, PolarizationInputs, BOOLEAN)

\* the Fock subsystem prepared in any input state
InitSubsystem ==
    InitWith(UNION {SubsystemInputs(d) : d \in FockDims}, {NewSubsystem(2)}, {FALSE})

\* ------------------------------------------------------------------------
\* Actions: one call of a public method each
\* ------------------------------------------------------------------------
Commit(w, op, target, args) ==
    /\ subsystem' = w.sub
    /\ envelope' = w.env
    /\ composite_envelopes' = w.ce
    /\ config' = w.cfg
    /\ ret' = [op |-> op, target |-> target, args |-> args, exc |-> w.exc,
               outcome |-> IF w.exc = "" THEN w.outcome ELSE NoOutcome,
               others |-> IF w.exc = "" THEN w.others ELSE {}]
    /\ UNCHANGED <<plan, estimator, config_class>>

CanDraw == Len(config._key) <= MaxDraws

Expand(s) ==
    /\ subsystem[s].index = NoIndex
    /\ Commit(WSub(World, s, expand(subsystem[s])), "expand", s, <<>>)

Contract(s, final) ==
    \E eig_phase \in EigPhases(subsystem[s], final) :
        Commit(WSub(World, s, contract(subsystem[s], final, Tol, eig_phase)),
               "contract", s, <<final>>)

ApplyKraus(s, name, identity_check) ==
    /\ subsystem[s].index = NoIndex
    /\ \E eig_phase \in (IF contractions(config)
                         THEN EigPhases(apply_kraus_state(subsystem[s],
                                  OperatorSet(name, subsystem[s].dimensions),
                                  identity_check).s, Label)
                         ELSE {One}) :
        Commit(WSub(World, s, apply_kraus(subsystem[s],
                                          OperatorSet(name, subsystem[s].dimensions),
                                          identity_check, config, eig_phase)),
               "apply_kraus", s, <<name, identity_check>>)

MeasurePOVM(s, name, destructive, partial) ==
    /\ CanDraw
    /\ LET operators == OperatorSet(name, subsystem[s].dimensions)
       IN  \E outcome \in measure_POVM_outcomes(World, s, operators) :
           \E fock_outcome \in measure_POVM_fock_outcomes(World, s, operators,
                                     destructive, partial, outcome) :
           \E eig_phase \in (IF contractions(config) /\ ~destructive
                             THEN EigPhases(measure_POVM_state(World, s, operators,
                                      destructive, partial, outcome,
                                      fock_outcome).sub[s], Label)
                             ELSE {One}) :
               Commit(measure_POVM(World, s, operators, destructive, partial,
                                   outcome, fock_outcome, eig_phase),
                      "measure_POVM", s, <<name, destructive, partial>>)

Combine ==
    Commit(envelope_combine(World), "combine", ENV, <<>>)

ApplyOperation(operation) ==
    /\ norm_representable(World, operation)
    /\ Commit(envelope_apply_operation(World, operation), "apply_operation", ENV,
              <<operation>>)

Measure(non_destructive, remove_composite) ==
    /\ CanDraw
    /\ \E outcome \in envelope_measure_outcomes(World) :
           Commit(envelope_measure(World, non_destructive, remove_composite, outcome),
                  "measure", ENV, <<non_destructive, remove_composite>>)

EnvelopeOperatorSetNames == {"projectors", "incomplete"}
EnvelopePOVMSetNames == {"projectors"}

\* Spec follows an Envelope: its subsystems' own expand / contract /
\* apply_kraus are called once the subsystem is combined or measured (their
\* standalone behaviour is the subject of SpecSubsystem), and the Envelope's
\* apply_operation once it is combined or the target is measured.
Engaged(s) == subsystem[s].measured \/ subsystem[s].index # NoIndex

Next ==
    \/ \E s \in Subsystems : Engaged(s) /\ Expand(s)
    \/ \E s \in Subsystems : \E final \in Levels : Engaged(s) /\ Contract(s, final)
    \/ \E s \in Subsystems : \E name \in EnvelopeOperatorSetNames : \E ic \in BOOLEAN :
           Engaged(s) /\ ApplyKraus(s, name, ic)
    \/ \E s \in Subsystems : \E name \in EnvelopePOVMSetNames :
       \E d \in BOOLEAN : \E p \in BOOLEAN :
           MeasurePOVM(s, name, d, p)
    \/ Combine
    \/ \E operation \in Operations :
           Engaged(operation.kind) /\ ApplyOperation(operation)
    \/ \E nd \in BOOLEAN : \E rc \in BOOLEAN : Measure(nd, rc)

Spec == Init /\ [][Next]_vars

\* the representation state machine of one subsystem alone
NextSubsystem ==
    \/ Expand(FOCK)
    \/ \E final \in Levels : Contract(FOCK, final)
    \/ \E name \in OperatorSetNames : \E ic \in BOOLEAN : ApplyKraus(FOCK, name, ic)
    \/ \E name \in POVMSetNames : \E d \in BOOLEAN : \E p \in BOOLEAN :
           MeasurePOVM(FOCK, name, d, p)

SpecSubsystem == InitSubsystem /\ [][NextSubsystem]_vars

\* ------------------------------------------------------------------------
\* extra/einsum_constructor.py: index plans for jnp.einsum
\* ------------------------------------------------------------------------
\* a plan "ab,cd->ef" is kept as its operands' label lists and its output
\* label list; labels are the characters chr(97 + i)
Alphabet ==
    <<"a", "b", "c", "d", "e", "f", "g", "h", "i", "j", "k", "l", "m",
      "n", "o", "p", "q", "r", "s", "t", "u", "v", "w", "x", "y", "z",
      "{", "|", "}", "~">>
chr97(i) == Alphabet[i + 1]
\* "".join([chr(97 + i) for i in s])
join_chr(s) == [k \in 1..Len(s) |-> chr97(s[k])]

\* s in objs
In(s, objs) == \E j \in 1..Len(objs) : objs[j] = s
\* objs.index(s) + 1
IndexIn(objs, s) == CHOOSE j \in 1..Len(objs) : objs[j] = s
\* [f(i) for i in 1..n]
Range0(n) == [i \in 1..n |-> i - 1]
\* the 1-based positions of state_objs whose slot is in states
KeptPositions(state_objs, states) ==
    SelectSeq([i \in 1..Len(state_objs) |-> i], LAMBDA i : In(state_objs[i], states))

\* apply_operator_vector with the operator's legs in the order (in, out)
apply_operator_vector_transposed(state_objs, operator_objs) ==
    LET n == Len(state_objs)
        m == Len(operator_objs)
        own(s) == IndexIn(state_objs, s) - 1
        ed == n
        new(s) == n + IndexIn(operator_objs, s)
    IN  [inputs |-> <<join_chr([j \in 1..m |-> own(operator_objs[j])]
                                \o [j \in 1..m |-> n + j]),
                      join_chr(Range0(n) \o <<ed>>)>>,
         output |-> join_chr([i \in 1..n |->
                        IF In(state_objs[i], operator_objs)
                        THEN new(state_objs[i]) ELSE own(state_objs[i])] \o <<ed>>)]

apply_operator_vector(state_objs, operator_objs) ==
    LET n == Len(state_objs)
        m == Len(operator_objs)
        \* einsum_dict[s][0]: the counter value when s was met in state_objs
        own(s) == IndexIn(state_objs, s) - 1
        \* the extra dimension: the next counter value
        ed == n
        \* einsum_dict[s][1]: the counter value when s was met in operator_objs
        new(s) == n + IndexIn(operator_objs, s)
    IN  [inputs |-> <<join_chr([j \in 1..m |-> n + j]
                                \o [j \in 1..m |-> own(operator_objs[j])]),
                      join_chr(Range0(n) \o <<ed>>)>>,
         output |-> join_chr([i \in 1..n |->
                        IF In(state_objs[i], operator_objs)
                        THEN new(state_objs[i]) ELSE own(state_objs[i])] \o <<ed>>)]

\* apply_operator_matrix with the second operator's legs in the order (in, out)
apply_operator_matrix_transposed(state_objs, operator_objs) ==
    LET n == Len(state_objs)
        m == Len(operator_objs)
        row(s) == IndexIn(state_objs, s) - 1
        col(s) == n + IndexIn(state_objs, s) - 1
        first(s) == 2 * n + IndexIn(operator_objs, s) - 1
        second(s) == 2 * n + m + IndexIn(operator_objs, s) - 1
    IN  [inputs |-> <<join_chr([j \in 1..m |-> first(operator_objs[j])]
                                \o [j \in 1..m |-> row(operator_objs[j])]),
                      join_chr(Range0(2 * n)),
                      join_chr([j \in 1..m |-> col(operator_objs[j])]
                                \o [j \in 1..m |-> second(operator_objs[j])])>>,
         output |-> join_chr([i \in 1..n |->
                        IF In(state_objs[i], operator_objs)
                        THEN first(state_objs[i]) ELSE row(state_objs[i])]
                     \o [i \in 1..n |->
                        IF In(state_objs[i], operator_objs)
                        THEN second(state_objs[i]) ELSE col(state_objs[i])])]

apply_operator_matrix(state_objs, operator_objs) ==
    LET n == Len(state_objs)
        m == Len(operator_objs)
        \* einsum_dict[s][0], [1]: row and column index of s in the state
        row(s) == IndexIn(state_objs, s) - 1
        col(s) == n + IndexIn(state_objs, s) - 1
        \* einsum_dict[s][2], [3]: new indices of the first / second operator
        first(s) == 2 * n + IndexIn(operator_objs, s) - 1
        second(s) == 2 * n + m + IndexIn(operator_objs, s) - 1
    IN  [inputs |-> <<join_chr([j \in 1..m |-> first(operator_objs[j])]
                                \o [j \in 1..m |-> row(operator_objs[j])]),
                      join_chr(Range0(2 * n)),
                      join_chr([j \in 1..m |-> second(operator_objs[j])]
                                \o [j \in 1..m |-> col(operator_objs[j])])>>,
         output |-> join_chr([i \in 1..n |->
                        IF In(state_objs[i], operator_objs)
                        THEN first(state_objs[i]) ELSE row(state_objs[i])]
                     \o [i \in 1..n |->
                        IF In(state_objs[i], operator_objs)
                        THEN second(state_objs[i]) ELSE col(state_objs[i])])]

\* trace_out_vector giving every dropped slot the index of the first one
trace_out_vector_shared(state_objs, states) ==
    LET n == Len(state_objs)
        kept == KeptPositions(state_objs, states)
        dropped == {i \in 1..n : ~In(state_objs[i], states)}
        shared == (CHOOSE i \in dropped : \A j \in dropped : i <= j) - 1
    IN  [inputs |-> <<join_chr([i \in 1..n |-> IF i \in dropped THEN shared ELSE i - 1]
                                \o <<n>>)>>,
         output |-> join_chr([k \in 1..Len(kept) |-> kept[k] - 1] \o <<n>>)]

trace_out_vector(state_objs, states) ==
    LET n == Len(state_objs)
        kept == KeptPositions(state_objs, states)
    IN  \* both branches of the loop draw c = next(c1)
        [inputs |-> <<join_chr(Range0(n) \o <<n>>)>>,
         output |-> join_chr([k \in 1..Len(kept) |-> kept[k] - 1] \o <<n>>)]

trace_out_matrix(state_objs, states) ==
    LET n == Len(state_objs)
        kept == KeptPositions(state_objs, states)
        nk == Len(kept)
        sum_out == 0
        \* the counter value a kept slot draws in pass p (0 or 1)
        c(i, p) == p * nk + IndexIn(kept, i)
        pass(p) == [i \in 1..n |-> IF In(state_objs[i], states) THEN c(i, p) ELSE sum_out]
    IN  [inputs |-> <<join_chr(pass(0) \o pass(1))>>,
         output |-> join_chr([k \in 1..(2 * nk) |-> k])]

measure_vector(state_objs, states) ==
    LET n == Len(state_objs)
        kept == KeptPositions(state_objs, states)
    IN  [inputs |-> <<join_chr(Range0(n) \o <<n>>)>>,
         output |-> join_chr([k \in 1..Len(kept) |-> kept[k] - 1] \o <<n>>)]

measure_matrix(state_objs, states) ==
    LET n == Len(state_objs)
        kept == KeptPositions(state_objs, states)
    IN  [inputs |-> <<join_chr(Range0(2 * n))>>,
         output |-> join_chr([k \in 1..Len(kept) |-> kept[k] - 1]
                              \o [k \in 1..Len(kept) |-> n + kept[k] - 1])]

reorder_vector(state_objs, states) ==
    LET n == Len(state_objs)
        \* for the last index
        other == 0
        \* einsum_dict[s]: the counter value when s was met in state_objs
        own(s) == IndexIn(state_objs, s)
    IN  [inputs |-> <<join_chr([i \in 1..n |-> i] \o <<other>>)>>,
         output |-> join_chr([j \in 1..Len(states) |-> own(states[j])] \o <<other>>)]

\* reorder_matrix that leaves the column legs in the order of state_objs
reorder_matrix_rows_only(state_objs, states) ==
    LET n == Len(state_objs)
        row(s) == IndexIn(state_objs, s) - 1
    IN  [inputs |-> <<join_chr(Range0(2 * n))>>,
         output |-> join_chr([j \in 1..Len(states) |-> row(states[j])]
                              \o [i \in 1..n |-> n + i - 1])]

reorder_matrix(state_objs, states) ==
    LET n == Len(state_objs)
        \* einsum_dict[s][0], [1]: row and column index of s
        row(s) == IndexIn(state_objs, s) - 1
        col(s) == n + IndexIn(state_objs, s) - 1
    IN  [inputs |-> <<join_chr(Range0(2 * n))>>,
         output |-> join_chr([j \in 1..Len(states) |-> row(states[j])]
                              \o [j \in 1..Len(states) |-> col(states[j])])]

\* ------------------------------------------------------------------------
\* jnp.einsum on reshaped arrays: an array of shape (d1, ..., dk) is the
\* function over its row-major flat positions 0 .. d1*...*dk - 1
\* ------------------------------------------------------------------------
RECURSIVE Prod(_)
Prod(shape) == IF shape = <<>> THEN 1 ELSE Head(shape) * Prod(Tail(shape))
Strides(shape) ==
    [i \in 1..Len(shape) |-> Prod(SubSeq(shape, i + 1, Len(shape)))]
Digits(k, shape) ==
    [i \in 1..Len(shape) |-> (k \div Strides(shape)[i]) % shape[i]]
RECURSIVE DotTo(_, _, _)
\* a[1]*b[1] + ... + a[n]*b[n]
DotTo(a, b, n) == IF n = 0 THEN 0 ELSE DotTo(a, b, n - 1) + a[n] * b[n]
FlatIndex(digits, shape) == DotTo(digits, Strides(shape), Len(shape))

RECURSIVE Flatten(_)
Flatten(lists) == IF lists = <<>> THEN <<>> ELSE Head(lists) \o Flatten(Tail(lists))
RECURSIVE Distinct(_)
\* the elements of a list in the order of their first occurrence
Distinct(list) ==
    IF list = <<>> THEN <<>>
    ELSE LET d == Distinct(SubSeq(list, 1, Len(list) - 1))
             x == list[Len(list)]
         IN  IF In(x, d) THEN d ELSE Append(d, x)

\* the size einsum gives a label: its axis length at the first occurrence
LabelDim(l, inputs, shapes) ==
    LET k == CHOOSE k \in 1..Len(inputs) :
                 In(l, inputs[k]) /\ \A j \in 1..(k - 1) : ~In(l, inputs[j])
    IN  shapes[k][IndexIn(inputs[k], l)]

\* einsum rejects a label outside a-z, operands whose rank differs from their
\* label list, a label used with two sizes, and a repeated or unknown output label
einsum_accepts(p, shapes) ==
    /\ \A k \in 1..Len(p.inputs) : \A i \in 1..Len(p.inputs[k]) :
           \E a \in 1..26 : Alphabet[a] = p.inputs[k][i]
    /\ \A k \in 1..Len(p.inputs) : Len(p.inputs[k]) = Len(shapes[k])
    /\ \A k \in 1..Len(p.inputs) : \A i \in 1..Len(p.inputs[k]) :
           shapes[k][i] = LabelDim(p.inputs[k][i], p.inputs, shapes)
    /\ \A i \in 1..Len(p.output) :
           /\ In(p.output[i], Flatten(p.inputs))
           /\ \A j \in 1..Len(p.output) : p.output[i] = p.output[j] => i = j

\* where each leg of an operand finds its digit: pos[j] is the place of the
\* j-th leg's label in the list axes, 0 when it is not there
Places(legs, axes) ==
    [j \in 1..Len(legs) |-> IF In(legs[j], axes) THEN IndexIn(axes, legs[j]) ELSE 0]
\* the part of an operand's flat position fixed by the labels of axes, when
\* those labels take the digits of k (a flat position over axes_shape)
Offset(strides, pos, axes_shape, axes_strides, k) ==
    DotTo([j \in 1..Len(pos) |->
              IF pos[j] = 0 THEN 0
              ELSE (k \div axes_strides[pos[j]]) % axes_shape[pos[j]]],
          strides, Len(pos))

RECURSIVE TermTo(_, _, _, _, _, _)
\* the product of the first k operands' entries at one assignment of the labels
TermTo(operands, out_part, sum_part, o, s, k) ==
    IF k = 0 THEN One
    ELSE CMul(TermTo(operands, out_part, sum_part, o, s, k - 1),
              operands[k][out_part[k][o] + sum_part[k][s]])

\* the table of Offset over the flat positions 0 .. Prod(axes_shape) - 1
Offsets(legs, shape, axes, axes_shape) ==
    With(<<Strides(shape), Places(legs, axes), axes_shape, Strides(axes_shape)>>,
         LAMBDA t : [k \in 0..(Prod(t[3]) - 1) |-> Offset(t[1], t[2], t[3], t[4], k)])

\* the contraction of the operands along p: every output entry is the sum,
\* over the labels missing from the output, of the product of the operands'
\* entries
contract_operands(p, operands, shapes) ==
    LET labels == Distinct(Flatten(p.inputs))
        summed == SelectSeq(labels, LAMBDA l : ~In(l, p.output))
        out_shape == [i \in 1..Len(p.output) |-> LabelDim(p.output[i], p.inputs, shapes)]
        sum_shape == [i \in 1..Len(summed) |-> LabelDim(summed[i], p.inputs, shapes)]
        out_part == [k \in 1..Len(operands) |->
                        Offsets(p.inputs[k], shapes[k], p.output, out_shape)]
        sum_part == [k \in 1..Len(operands) |->
                        Offsets(p.inputs[k], shapes[k], summed, sum_shape)]
    IN  With(<<operands, out_part, sum_part, Prod(out_shape), Prod(sum_shape)>>,
             LAMBDA t : [o \in 0..(t[4] - 1) |->
                            SumTo([s \in 0..(t[5] - 1) |->
                                      TermTo(t[1], t[2], t[3], o, s, Len(t[1]))],
                                  t[5])])

\* jnp.einsum(plan, *operands); three operands are contracted pairwise, the
\* first two keeping every label the third operand or the output still uses
einsum(p, operands, shapes) ==
    IF Len(operands) = 3
    THEN LET both == <<p.inputs[1], p.inputs[2]>>
             mid == SelectSeq(Distinct(Flatten(both)),
                              LAMBDA l : In(l, p.inputs[3]) \/ In(l, p.output))
             mid_shape == [i \in 1..Len(mid) |-> LabelDim(mid[i], p.inputs, shapes)]
         IN  contract_operands([inputs |-> <<mid, p.inputs[3]>>, output |-> p.output],
                 <<contract_operands([inputs |-> both, output |-> mid],
                                     <<operands[1], operands[2]>>,
                                     <<shapes[1], shapes[2]>>),
                   operands[3]>>,
                 <<mid_shape, shapes[3]>>)
    ELSE contract_operands(p, operands, shapes)

\* ------------------------------------------------------------------------
\* Calls of the planner: the slots of a product space, each with its own
\* dimension, the state reshaped to one axis per slot, and an operator
\* reshaped to one (out, in) pair of axes per acted-on slot
\* ------------------------------------------------------------------------
Slots == 1..MaxSlots
\* BaseState.dimensions of the slots: equal and different dimensions occur
dimensions(s) == IF s = 2 THEN 3 ELSE 2
dims(objs) == [i \in 1..Len(objs) |-> dimensions(objs[i])]

\* lists of distinct slots, in any order
Lists(S, lo, hi) ==
    {l \in UNION {[1..k -> S] : k \in lo..hi} :
        \A i \in 1..Len(l) : \A j \in 1..Len(l) : l[i] = l[j] => i = j}
Elements(l) == {l[i] : i \in 1..Len(l)}

\* arrays with pairwise different, complex entries
DenseVector(D) == [k \in 0..(D - 1) |-> <<k + 1, (k % 3) - 1, 1>>]
DenseMatrix(D) == [k \in 0..(D * D - 1) |-> <<(k % 7) + 1, (k % 4) - 2, 1>>]
DenseOperator(D) == [k \in 0..(D * D - 1) |-> <<(k % 5) + 1, (k % 3) - 1, 1>>]
\* the product basis state |0 1 0 ...> and its density matrix
BasisIndex(shape) == FlatIndex([i \in 1..Len(shape) |-> (i - 1) % 2], shape)
BasisVector(shape) == [k \in 0..(Prod(shape) - 1) |-> IF k = BasisIndex(shape) THEN One ELSE Zero]
BasisMatrix(shape) ==
    [k \in 0..(Prod(shape) * Prod(shape) - 1) |->
        IF k = BasisIndex(shape) * Prod(shape) + BasisIndex(shape) THEN One ELSE Zero]
Tensors == {"dense", "basis"}
VectorState(c) ==
    IF c.tensor = "dense" THEN DenseVector(Prod(dims(c.state_objs)))
    ELSE BasisVector(dims(c.state_objs))
MatrixState(c) ==
    IF c.tensor = "dense" THEN DenseMatrix(Prod(dims(c.state_objs)))
    ELSE BasisMatrix(dims(c.state_objs))
Operator(c) == DenseOperator(Prod(dims(c.objs)))
Conj(U) == [k \in DOMAIN U |-> CConj(U[k])]
VectorShape(c) == dims(c.state_objs) \o <<1>>
MatrixShape(c) == dims(c.state_objs) \o dims(c.state_objs)
OperatorShape(c) == dims(c.objs) \o dims(c.objs)

OperatorPlans == {"apply_operator_vector", "apply_operator_matrix"}
SubsetPlans == {"trace_out_vector", "trace_out_matrix", "measure_vector", "measure_matrix"}
\* a reorder plan is given the slots in their new order
ReorderPlans == {"reorder_vector", "reorder_matrix"}
NoPlan == [inputs |-> <<>>, output |-> <<>>]

\* the calls made: an operator plan names at least one acted-on slot, in any
\* order; a trace-out / measure plan names a subset of the slots (the code
\* only tests membership in it); an operator is applied to density matrices
\* of up to MaxMatrixSlots slots
Call(fn, so, o, t) ==
    [pc |-> "call", fn |-> fn, state_objs |-> so, objs |-> o, tensor |-> t,
     einsum |-> NoPlan, exc |-> "", result |-> NoArray]
Increasing(l) == \A i \in 1..(Len(l) - 1) : l[i] < l[i + 1]
PlanCalls ==
    {Call("apply_operator_vector", so, o, t) : t \in Tensors,
        so \in Lists(Slots, 1, MaxSlots), o \in Lists(Slots, 1, MaxSlots)}
    \cup {Call("apply_operator_matrix", so, o, t) : t \in Tensors,
        so \in Lists(Slots, 1, MaxMatrixSlots), o \in Lists(Slots, 1, MaxMatrixSlots)}
    \cup {Call(fn, so, o, t) : fn \in SubsetPlans, t \in Tensors,
        so \in Lists(Slots, 1, MaxSlots),
        o \in {l \in Lists(Slots, 0, MaxSlots) : Increasing(l)}}
    \cup {Call(fn, so, o, t) : fn \in ReorderPlans, t \in Tensors,
        so \in Lists(Slots, 1, MaxSlots),
        o \in Lists(Slots, 1, MaxSlots)}

InitPlan ==
    /\ subsystem = [s \in Subsystems |-> NewSubsystem(2)]
    /\ envelope = [composite_vector |-> NoArray, composite_matrix |-> NoArray,
                   composite_envelope |-> NoComposite, measured |-> FALSE]
    /\ composite_envelopes = <<OTHER_ENVELOPE>>
    /\ \E seed \in Seeds : config = [_random_seed |-> seed, _key |-> PRNGKey(seed),
                                     _contractions |-> TRUE]
    /\ ret = [op |-> "init", target |-> "", args |-> <<>>, exc |-> "",
              outcome |-> NoOutcome, others |-> {}]
    /\ \E c \in PlanCalls :
        /\ Elements(c.objs) \subseteq Elements(c.state_objs)
        /\ c.fn \in ReorderPlans => Len(c.objs) = Len(c.state_objs)
        /\ plan = c
    /\ estimator = NoEstimator
    /\ config_class = ConfigIdle

\* new_state = jnp.einsum(plan, *operands)
Planned(c, p, operands, shapes) ==
    [c EXCEPT !.pc = "done", !.einsum = p,
              !.exc = IF einsum_accepts(p, shapes) THEN "" ELSE "ValueError",
              !.result = IF einsum_accepts(p, shapes) THEN einsum(p, operands, shapes)
                         ELSE NoArray]

Calling(fn) == plan.pc = "call" /\ plan.fn = fn
Rest == <<subsystem, envelope, composite_envelopes, config, ret, estimator,
          config_class>>

ApplyOperatorVector ==
    /\ Calling("apply_operator_vector")
    /\ plan' = Planned(plan, apply_operator_vector(plan.state_objs, plan.objs),
                       <<Operator(plan), VectorState(plan)>>,
                       <<OperatorShape(plan), VectorShape(plan)>>)
    /\ UNCHANGED Rest

ApplyOperatorMatrix ==
    /\ Calling("apply_operator_matrix")
    /\ plan' = Planned(plan, apply_operator_matrix(plan.state_objs, plan.objs),
                       <<Operator(plan), MatrixState(plan), Conj(Operator(plan))>>,
                       <<OperatorShape(plan), MatrixShape(plan), OperatorShape(plan)>>)
    /\ UNCHANGED Rest

TraceOutVector ==
    /\ Calling("trace_out_vector")
    /\ plan' = Planned(plan, trace_out_vector(plan.state_objs, plan.objs),
                       <<VectorState(plan)>>, <<VectorShape(plan)>>)
    /\ UNCHANGED Rest

TraceOutMatrix ==
    /\ Calling("trace_out_matrix")
    /\ plan' = Planned(plan, trace_out_matrix(plan.state_objs, plan.objs),
                       <<MatrixState(plan)>>, <<MatrixShape(plan)>>)
    /\ UNCHANGED Rest

MeasureVector ==
    /\ Calling("measure_vector")
    /\ plan' = Planned(plan, measure_vector(plan.state_objs, plan.objs),
                       <<VectorState(plan)>>, <<VectorShape(plan)>>)
    /\ UNCHANGED Rest

MeasureMatrix ==
    /\ Calling("measure_matrix")
    /\ plan' = Planned(plan, measure_matrix(plan.state_objs, plan.objs),
                       <<MatrixState(plan)>>, <<MatrixShape(plan)>>)
    /\ UNCHANGED Rest

\* the call that follows a reorder: the reordered tensor is given the plan
\* for the slots in their new order and the old order as the new one
Returning(c) == [c EXCEPT !.state_objs = c.objs, !.objs = c.state_objs]
Reordered(fn) == plan.pc = "done" /\ plan.fn = fn /\ plan.exc = ""

ReorderVector ==
    /\ \/ /\ Calling("reorder_vector")
          /\ plan' = Planned(plan, reorder_vector(plan.state_objs, plan.objs),
                             <<VectorState(plan)>>, <<VectorShape(plan)>>)
       \/ /\ Reordered("reorder_vector")
          /\ plan' = [Planned(Returning(plan),
                              reorder_vector(plan.objs, plan.state_objs),
                              <<plan.result>>, <<VectorShape(Returning(plan))>>)
                          EXCEPT !.pc = "back"]
    /\ UNCHANGED Rest

ReorderMatrix ==
    /\ \/ /\ Calling("reorder_matrix")
          /\ plan' = Planned(plan, reorder_matrix(plan.state_objs, plan.objs),
                             <<MatrixState(plan)>>, <<MatrixShape(plan)>>)
       \/ /\ Reordered("reorder_matrix")
          /\ plan' = [Planned(Returning(plan),
                              reorder_matrix(plan.objs, plan.state_objs),
                              <<plan.result>>, <<MatrixShape(Returning(plan))>>)
                          EXCEPT !.pc = "back"]
    /\ UNCHANGED Rest

NextPlan ==
    \/ ApplyOperatorVector
    \/ ApplyOperatorMatrix
    \/ TraceOutVector
    \/ TraceOutMatrix
    \/ MeasureVector
    \/ MeasureMatrix
    \/ ReorderVector
    \/ ReorderMatrix

SpecPlan == InitPlan /\ [][NextPlan]_vars


\* ------------------------------------------------------------------------
\* operation/helpers/fock_dimension_esitmation.py: FockDimensions
\* ------------------------------------------------------------------------
\* the estimator keeps the state array as its shape and its entries: a
\* function over 0..d-1 for the shapes (d,1) and (d,), rows of such for (d,d)

\* FockDimensions.__init__
FockDimensions(shape, state, operation, num_quanta, threshold) ==
    [shape |-> shape, state |-> state, dimensions |-> shape[1],
     operation |-> operation, threshold |-> threshold, num_quanta |-> num_quanta]

\* _increase_dimensions with the padding stacked in front of the array
increase_dimensions_in_front(fd, amount) ==
    LET padded_vector ==
            [i \in 0..(fd.dimensions + amount - 1) |->
                IF i >= amount THEN fd.state[i - amount] ELSE Zero]
        fd1 == IF fd.shape = <<fd.dimensions, 1>>
               THEN [fd EXCEPT !.state = padded_vector,
                               !.shape = <<fd.dimensions + amount, 1>>,
                               !.dimensions = fd.dimensions + amount]
               ELSE fd
        padded_matrix ==
            [i \in 0..(fd1.dimensions + amount - 1) |->
                [j \in 0..(fd1.dimensions + amount - 1) |->
                    IF i >= amount /\ j >= amount
                    THEN fd1.state[i - amount][j - amount] ELSE Zero]]
    IN  IF fd1.shape = <<fd1.dimensions, fd1.dimensions>>
        THEN [fd1 EXCEPT !.state = padded_matrix,
                         !.shape = <<fd1.dimensions + amount, fd1.dimensions + amount>>,
                         !.dimensions = fd1.dimensions + amount]
        ELSE fd1

\* FockDimensions._increase_dimensions
increase_dimensions(fd, amount) ==
    LET padded_vector ==
            [i \in 0..(fd.dimensions + amount - 1) |->
                IF i < fd.dimensions THEN fd.state[i] ELSE Zero]
        fd1 == IF fd.shape = <<fd.dimensions, 1>>
               THEN [fd EXCEPT !.state = padded_vector,
                               !.shape = <<fd.dimensions + amount, 1>>,
                               !.dimensions = fd.dimensions + amount]
               ELSE fd
        padded_matrix ==
            [i \in 0..(fd1.dimensions + amount - 1) |->
                [j \in 0..(fd1.dimensions + amount - 1) |->
                    IF i < fd1.dimensions /\ j < fd1.dimensions
                    THEN fd1.state[i][j] ELSE Zero]]
    IN  IF fd1.shape = <<fd1.dimensions, fd1.dimensions>>
        THEN [fd1 EXCEPT !.state = padded_matrix,
                         !.shape = <<fd1.dimensions + amount, fd1.dimensions + amount>>,
                         !.dimensions = fd1.dimensions + amount]
        ELSE fd1

\* FockDimensions._initial_estimate; the parameters alpha and zeta are 0, for
\* which |alpha|^2 = 0 and sinh(|zeta|)^2 = 0
initial_estimate(fd) ==
    LET displace_cutoff == fd.num_quanta + 3 * fd.operation.alpha2
        fd1 == IF fd.operation._operation_type = "Displace"
                  /\ displace_cutoff > fd.dimensions
               THEN increase_dimensions(fd, displace_cutoff - fd.dimensions)
               ELSE fd
        en == (2 * fd1.num_quanta + 1) * fd1.operation.sinh2 + fd1.num_quanta
        squeeze_cutoff == fd1.num_quanta + 3 * en
    IN  IF fd1.operation._operation_type = "Squeeze"
           /\ squeeze_cutoff > fd1.dimensions
        THEN increase_dimensions(fd1, squeeze_cutoff - fd1.dimensions)
        ELSE fd1

\* the first i of range(n) at which the running sum of p reaches threshold,
\* plus 3; -1 when the loop ends without reaching it
cdf_cut(p, n, threshold) ==
    LET hits == {i \in 0..(n - 1) : ~RLess(SumTo(p, i + 1), threshold)}
    IN  IF hits = {} THEN -1
        ELSE (CHOOSE i \in hits : \A j \in hits : i <= j) + 3

\* FockDimensions._compute_dimensions
compute_dimensions_once(fd) ==
    LET d == fd.dimensions
        budget == CMul(CSub(One, fd.threshold), <<1, 0, 1000>>)
    IN  IF fd.shape = <<d, 1>>
        THEN With(<<compute_operator(fd.operation, d), fd.state>>, LAMBDA t :
                 With(MatVec(t[1], t[2]), LAMBDA resulting_state :
                     IF RLess(budget, CReal(resulting_state[d - 1])) THEN -1
                     ELSE cdf_cut([i \in 0..(d - 1) |-> CAbs2(resulting_state[i])],
                                  d, fd.threshold)))
        ELSE IF fd.shape = <<d, d>>
        THEN With(<<compute_operator(fd.operation, d), fd.state>>, LAMBDA t :
                 With(MatMul(t[1], MatMul(t[2], Dagger(t[1]))), LAMBDA resulting_state :
                     IF RLess(budget, CAbs(resulting_state[d - 1][d - 1])) THEN -1
                     ELSE cdf_cut([i \in 0..(d - 1) |-> CAbs(resulting_state[i][i])],
                                  d, fd.threshold)))
        ELSE -1

\* the arrays, operations, photon numbers and thresholds of a call
EstimatorStates(d) ==
    {[shape |-> <<d, 1>>, state |-> v] : v \in {Basis(d, 0), Basis(d, d - 1), Superposition(d)}}
    \cup {[shape |-> <<d, d>>, state |-> m] :
             m \in {Outer(Basis(d, d - 1)), Outer(Superposition(d)), Mixed(d)}}
    \cup {[shape |-> <<d>>, state |-> Basis(d, 0)]}
EstimatorOperations ==
    {[_operation_type |-> "Displace", name |-> "Identity", alpha2 |-> 0, sinh2 |-> 0],
     [_operation_type |-> "Squeeze", name |-> "Identity", alpha2 |-> 0, sinh2 |-> 0],
     [_operation_type |-> "Shift", name |-> "Shift", alpha2 |-> 0, sinh2 |-> 0]}
NumQuanta == {0, 1, MaxDim + 1}
Thresholds == {<<1, 0, 2>>, One, <<3, 0, 2>>}

InitDimensions ==
    /\ subsystem = [s \in Subsystems |-> NewSubsystem(2)]
    /\ envelope = [composite_vector |-> NoArray, composite_matrix |-> NoArray,
                   composite_envelope |-> NoComposite, measured |-> FALSE]
    /\ composite_envelopes = <<OTHER_ENVELOPE>>
    /\ \E seed \in Seeds : config = [_random_seed |-> seed, _key |-> PRNGKey(seed),
                                     _contractions |-> TRUE]
    /\ ret = [op |-> "init", target |-> "", args |-> <<>>, exc |-> "",
              outcome |-> NoOutcome, others |-> {}]
    /\ plan = PlanIdle
    /\ \E d \in FockDims : \E a \in EstimatorStates(d) :
       \E operation \in EstimatorOperations :
       \E num_quanta \in NumQuanta : \E threshold \in Thresholds :
       LET fd == FockDimensions(a.shape, a.state, operation, num_quanta, threshold)
       IN  /\ initial_estimate(fd).dimensions <= MaxEstimate
           /\ estimator = [fd |-> fd, pc |-> "call", n |-> 0]
    /\ config_class = ConfigIdle

Others == <<subsystem, envelope, composite_envelopes, config, ret, plan, config_class>>

\* compute_dimensions: self._initial_estimate()
InitialEstimate ==
    /\ estimator.pc = "call"
    /\ estimator' = [estimator EXCEPT !.fd = initial_estimate(@), !.pc = "loop"]
    /\ UNCHANGED Others

\* compute_dimensions: n = self._compute_dimensions(); if n > 0: return n
ComputeDimensions ==
    /\ estimator.pc = "loop"
    /\ LET n == compute_dimensions_once(estimator.fd)
       IN  estimator' = [estimator EXCEPT !.n = n,
                             !.pc = IF n > 0 THEN "returned" ELSE "increase"]
    /\ UNCHANGED Others

\* compute_dimensions: self._increase_dimensions(5)
IncreaseDimensions ==
    /\ estimator.pc = "increase"
    /\ estimator.fd.dimensions + 5 <= MaxEstimate
    /\ estimator' = [estimator EXCEPT !.fd = increase_dimensions(@, 5), !.pc = "loop"]
    /\ UNCHANGED Others

NextDimensions ==
    \/ InitialEstimate
    \/ ComputeDimensions
    \/ IncreaseDimensions

SpecDimensions == InitDimensions /\ [][NextDimensions]_vars

\* compute_dimensions runs its loop to the end: no step that can be taken is
\* put off for ever
FairSpecDimensions == SpecDimensions /\ WF_vars(NextDimensions)

\* ------------------------------------------------------------------------
\* photon_weave.py: Config as a class (construction, set_seed, random_key)
\* ------------------------------------------------------------------------
\* config_class holds the class attribute _instance (0 for None, else the
\* position of the object in objects), the Config objects ever allocated, and
\* for every caller the object its last Config() returned (0 before its first
\* call).  Two fields record the history of the run: reads, the keys that
\* random_key returned since the seed was last set, with their callers, and
\* origin, the seed of the first Config() or of the last set_seed after it.
Callers == {"a", "b"}
\* values of random.randint(0, sys.maxsize) in __init__, and seeds given to
\* set_seed
RandomSeeds == {3, 5}
SetSeeds == {5, 7}
NoSeed == -1
NewObject == [_initialized |-> FALSE, _random_seed |-> NoSeed, _key |-> <<>>]

\* Config.__new__: allocates an object only while cls._instance is None
Config_new(cc) ==
    IF cc._instance = 0
    THEN [cc EXCEPT !.objects = Append(@, NewObject),
                    !._instance = Len(cc.objects) + 1]
    ELSE cc

\* Config.__init__ without the test of _initialized
Config_init_again(self, seed) ==
    [self EXCEPT !._initialized = TRUE, !._random_seed = seed,
                 !._key = PRNGKey(seed)]

\* Config.__init__ on the object self, seed being the value random.randint
\* would return
Config_init(self, seed) ==
    IF ~self._initialized
    THEN [self EXCEPT !._initialized = TRUE, !._random_seed = seed,
                      !._key = PRNGKey(seed)]
    ELSE self

InitConfig ==
    /\ subsystem = [s \in Subsystems |-> NewSubsystem(2)]
    /\ envelope = [composite_vector |-> NoArray, composite_matrix |-> NoArray,
                   composite_envelope |-> NoComposite, measured |-> FALSE]
    /\ composite_envelopes = <<OTHER_ENVELOPE>>
    /\ \E seed \in Seeds : config = [_random_seed |-> seed, _key |-> PRNGKey(seed),
                                     _contractions |-> TRUE]
    /\ ret = [op |-> "init", target |-> "", args |-> <<>>, exc |-> "",
              outcome |-> NoOutcome, others |-> {}]
    /\ plan = PlanIdle
    /\ estimator = NoEstimator
    /\ config_class = [_instance |-> 0, objects |-> <<>>,
                       handle |-> [c \in Callers |-> 0],
                       reads |-> <<>>, origin |-> [by |-> "", seed |-> NoSeed]]

Returns(op, caller, args) ==
    ret' = [op |-> op, target |-> caller, args |-> args, exc |-> "",
            outcome |-> NoOutcome, others |-> {}]

\* caller evaluates Config(): __new__, then __init__ on the object returned
Construct(caller) ==
    /\ \E seed \in RandomSeeds :
       LET cc == Config_new(config_class)
           self == cc._instance
           initialised == Config_init(cc.objects[self], seed)
       IN  config_class' =
               [cc EXCEPT !.objects[self] = initialised,
                          !.handle[caller] = self,
                          !.origin = IF config_class._instance = 0
                                     THEN [by |-> "__init__", seed |-> seed]
                                     ELSE @]
    /\ Returns("Config", caller, <<>>)
    /\ UNCHANGED <<subsystem, envelope, composite_envelopes, config, plan, estimator>>

\* caller calls set_seed(seed) on the object its Config() returned
SetSeed(caller, seed) ==
    /\ config_class.handle[caller] # 0
    /\ LET self == config_class.handle[caller]
       IN  config_class' =
               [config_class EXCEPT !.objects[self] = set_seed(@, seed),
                                    !.reads = <<>>,
                                    !.origin = [by |-> "set_seed", seed |-> seed]]
    /\ Returns("set_seed", caller, <<seed>>)
    /\ UNCHANGED <<subsystem, envelope, composite_envelopes, config, plan, estimator>>

\* caller reads random_key of the object its Config() returned
ReadKey(caller) ==
    /\ config_class.handle[caller] # 0
    /\ Len(config_class.reads) < MaxReads
    /\ LET self == config_class.handle[caller]
           read == random_key(config_class.objects[self])
       IN  config_class' =
               [config_class EXCEPT !.objects[self] = read.config,
                                    !.reads = Append(@, [caller |-> caller,
                                                         key |-> read.key])]
    /\ Returns("random_key", caller, <<>>)
    /\ UNCHANGED <<subsystem, envelope, composite_envelopes, config, plan, estimator>>

NextConfig ==
    \/ \E caller \in Callers : Construct(caller)
    \/ \E caller \in Callers : \E seed \in SetSeeds : SetSeed(caller, seed)
    \/ \E caller \in Callers : ReadKey(caller)

SpecConfig == InitConfig /\ [][NextConfig]_vars

\* ------------------------------------------------------------------------
\* Properties of the Envelope lifecycle (Spec)
\* ------------------------------------------------------------------------
\* C1: once the Envelope has been destructively measured, every later call
\* on it or on its fock / polarization subsystem raises an error and changes
\* no state.
MeasuredRejectsEveryOperation ==
    [][envelope.measured =>
          /\ ret'.exc # ""
          /\ UNCHANGED <<subsystem, envelope, composite_envelopes, config>>]_vars

\* a call on a subsystem of a measured Envelope that returned normally
MeasuredAcceptedCall ==
    /\ envelope.measured
    /\ ret.op = "contract"
    /\ ret.exc = ""
    /\ subsystem[ret.target].measured

\* ------------------------------------------------------------------------
\* Properties of the representation state machine (SpecSubsystem)
\* ------------------------------------------------------------------------
Populated(r) ==
    (IF r.label # NoLabel THEN {Label} ELSE {})
        \cup (IF r.state_vector # NoArray THEN {Vector} ELSE {})
        \cup (IF r.density_matrix # NoArray THEN {Matrix} ELSE {})

\* C2: in every state an unmeasured standalone subsystem reaches by expand,
\* contract, apply_kraus and measure_POVM, exactly one of label, state vector
\* and density matrix is populated: the one its expansion level names.
ExactlyOneRepresentation ==
    ~subsystem[FOCK].measured =>
        Populated(subsystem[FOCK]) = {subsystem[FOCK].expansion_level}

\* a non-destructive measure_POVM whose closing contraction reached Label
ContractedAfterPOVM ==
    /\ ret.op = "measure_POVM"
    /\ ret.exc = ""
    /\ ~subsystem[FOCK].measured
    /\ subsystem[FOCK].expansion_level = Label
    /\ Populated(subsystem[FOCK]) = {Label}

\* C3: a call of apply_kraus that is rejected (operator of the wrong shape,
\* or a set that does not sum to the identity) leaves the subsystem exactly
\* as it was: same expansion level, same label / vector / matrix.
KrausRejectionChangesNothing ==
    [][(ret'.op = "apply_kraus" /\ ret'.exc = "ValueError") =>
          subsystem'[FOCK] = subsystem[FOCK]]_vars

\* a rejected apply_kraus that found the subsystem at Matrix level afterwards
KrausRejectedAtMatrix ==
    /\ ret.op = "apply_kraus"
    /\ ret.exc = "ValueError"
    /\ subsystem[FOCK].expansion_level = Matrix

\* the density matrix |k><k| that two expansions of label k produce
TwiceExpanded(r, k) ==
    /\ ~r.measured
    /\ r.expansion_level = Matrix
    /\ r.density_matrix = Outer(Basis(r.dimensions, k))

\* C4: a subsystem at label k, expanded twice and then contracted with target
\* Label, is back at Label level with label k, whatever unit-modulus factor
\* the eigendecomposition gives the eigenvector.
RoundTripRestoresLabel ==
    [][\A k \in 0..(MaxDim - 1) :
          (/\ k < subsystem[FOCK].dimensions
           /\ ret.op = "expand"
           /\ ret.exc = ""
           /\ TwiceExpanded(subsystem[FOCK], k)
           /\ ret'.op = "contract"
           /\ ret'.args = <<Label>>)
          => (/\ subsystem'[FOCK].expansion_level = Label
              /\ subsystem'[FOCK].label = k)]_vars

\* the round trip from a label k >= 1 that stopped at Vector level
RoundTripStuckAtVector ==
    /\ ret.op = "contract"
    /\ ret.args = <<Label>>
    /\ ret.exc = ""
    /\ subsystem[FOCK].expansion_level = Vector
    /\ \E k \in 1..(subsystem[FOCK].dimensions - 1) :
           subsystem[FOCK].state_vector = VScale(Basis(subsystem[FOCK].dimensions, k),
                                                 MinusOne)

Min(a, b) == IF a < b THEN a ELSE b

\* what contract leaves alone: an impure density matrix, a vector that does
\* not have exactly one amplitude equal to 1
ContractKeepsUncompressible ==
    LET r == subsystem[FOCK]
    IN  /\ (/\ r.expansion_level = Matrix
            /\ r.density_matrix # NoArray
            /\ ~is_pure(r.density_matrix, Tol))
           => subsystem'[FOCK] = r
        /\ (/\ r.expansion_level = Vector
            /\ r.state_vector # NoArray
            /\ Cardinality(ones_of(r.state_vector)) # 1)
           => subsystem'[FOCK] = r

\* C5 as stated: after contract(final, tol) from level L the level L'
\* satisfies final <= L' <= L; an impure Matrix and a non-basis Vector stay.
ContractBoundedByTarget ==
    [][(ret'.op = "contract" /\ ret'.exc = "") =>
          /\ ret'.args[1] <= subsystem'[FOCK].expansion_level
          /\ subsystem'[FOCK].expansion_level <= subsystem[FOCK].expansion_level
          /\ ContractKeepsUncompressible]_vars

\* C5: after contract(final, tol) from level L the level L' satisfies
\* min(final, L) <= L' <= L: it never expands and goes no lower than the
\* target; an impure Matrix and a non-basis Vector stay as they are.
ContractBounded ==
    [][(ret'.op = "contract" /\ ret'.exc = "") =>
          /\ Min(ret'.args[1], subsystem[FOCK].expansion_level)
                 <= subsystem'[FOCK].expansion_level
          /\ subsystem'[FOCK].expansion_level <= subsystem[FOCK].expansion_level
          /\ ContractKeepsUncompressible]_vars

\* a contraction towards Label that stopped at Vector level
ContractStoppedAboveTarget ==
    /\ ret.op = "contract"
    /\ ret.args = <<Label>>
    /\ ret.exc = ""
    /\ ~subsystem[FOCK].measured
    /\ subsystem[FOCK].expansion_level = Vector
    /\ subsystem[FOCK].state_vector = Superposition(subsystem[FOCK].dimensions)

\* ------------------------------------------------------------------------
\* Properties of the einsum plans (SpecPlan)
\* ------------------------------------------------------------------------
Done(fn) == plan.pc = "done" /\ plan.fn = fn
\* the places in state_objs of the slots of objs, in the order of objs
Positions(state_objs, objs) == [j \in 1..Len(objs) |-> IndexIn(state_objs, objs[j])]
SubShape(shape, pos) == [j \in 1..Len(pos) |-> shape[pos[j]]]
\* the flat position, over the axes pos of shape, of the digits of x there
SubIndex(x, pos, shape) ==
    FlatIndex([j \in 1..Len(pos) |-> Digits(x, shape)[pos[j]]], SubShape(shape, pos))
\* the flat position over shape whose digits at the axes pos are those of y
\* and are 0 elsewhere
Embed(y, pos, shape) ==
    DotTo([j \in 1..Len(pos) |-> Digits(y, SubShape(shape, pos))[j]],
          [j \in 1..Len(pos) |-> Strides(shape)[pos[j]]], Len(pos))

\* U on the axes pos and the identity on every other axis, as a matrix over
\* the flat positions of shape
PaddedOperator(U, shape, pos) ==
    With(<<U, Prod(SubShape(shape, pos)),
           [x \in 0..(Prod(shape) - 1) |-> SubIndex(x, pos, shape)],
           [x \in 0..(Prod(shape) - 1) |->
               x - Embed(SubIndex(x, pos, shape), pos, shape)]>>,
         LAMBDA t : [x \in 0..(Prod(shape) - 1) |-> [y \in 0..(Prod(shape) - 1) |->
                        IF t[4][x] = t[4][y] THEN t[1][t[3][x] * t[2] + t[3][y]]
                        ELSE Zero]])
\* a (D, D) matrix from / to its row-major flat form
Unflatten(a, D) == [x \in 0..(D - 1) |-> [y \in 0..(D - 1) |-> a[x * D + y]]]
FlattenMatrix(A) ==
    With(A, LAMBDA t : [k \in 0..(Len0(t) * Len0(t) - 1) |->
                           t[k \div Len0(t)][k % Len0(t)]])
\* U rho U^dagger
Conjugated(U, rho) ==
    With(<<U, Dagger(U), rho>>, LAMBDA t :
        With(<<t[1], MatMul(t[3], t[2])>>, LAMBDA u : MatMul(u[1], u[2])))
\* the partial trace of the flat density matrix rho over the axes not in kept
PartialTrace(rho, shape, kept) ==
    LET gone == SelectSeq([i \in 1..Len(shape) |-> i],
                          LAMBDA i : \A k \in 1..Len(kept) : kept[k] # i)
        DK == Prod(SubShape(shape, kept))
        DG == Prod(SubShape(shape, gone))
    IN  With(<<rho, [a \in 0..(DK - 1) |-> Embed(a, kept, shape)],
               [z \in 0..(DG - 1) |-> Embed(z, gone, shape)], DK, DG, Prod(shape)>>,
             LAMBDA t : [k \in 0..(t[4] * t[4] - 1) |->
                 SumTo([z \in 0..(t[5] - 1) |->
                           t[1][(t[2][k \div t[4]] + t[3][z]) * t[6]
                                + t[2][k % t[4]] + t[3][z]]], t[5])])
\* how often a label occurs in a label list
Count(l, list) == Cardinality({i \in 1..Len(list) : list[i] = l})
\* the axis lengths of the plan's result
ResultShape(c, shapes) ==
    [i \in 1..Len(c.einsum.output) |-> LabelDim(c.einsum.output[i], c.einsum.inputs, shapes)]

\* C6: contracting an operator against a vector state with the plan of
\* apply_operator_vector equals applying the identity-padded operator; the
\* result has one axis per slot in slot order and then the trailing column
\* axis, untouched slots keep the state's own indices, dimensions unchanged.
OperatorVectorPlanApplies ==
    Done("apply_operator_vector") =>
        LET p == plan.einsum
            n == Len(plan.state_objs)
        IN  /\ plan.exc = ""
            /\ plan.result =
                   MatVec(PaddedOperator(Operator(plan), dims(plan.state_objs),
                                         Positions(plan.state_objs, plan.objs)),
                          VectorState(plan))
            /\ Len(p.output) = n + 1
            /\ p.output[n + 1] = p.inputs[2][n + 1]
            /\ \A i \in 1..n :
                   IF In(plan.state_objs[i], plan.objs)
                   THEN p.output[i] = p.inputs[1][IndexIn(plan.objs, plan.state_objs[i])]
                   ELSE p.output[i] = p.inputs[2][i]
            /\ ResultShape(plan, <<OperatorShape(plan), VectorShape(plan)>>)
                   = VectorShape(plan)

\* an operator applied to the third and the first of three slots
OperatorVectorApplied ==
    /\ Done("apply_operator_vector")
    /\ plan.state_objs = <<1, 2, 3>>
    /\ plan.objs = <<3, 1>>
    /\ plan.tensor = "dense"
    /\ plan.exc = ""
    /\ plan.einsum = [inputs |-> <<<<"e", "f", "c", "a">>, <<"a", "b", "c", "d">>>>,
                      output |-> <<"f", "b", "e", "d">>]

\* C7: the plan of apply_operator_matrix, evaluated on (operator, state,
\* conjugate of operator), equals U rho U^dagger with U the identity-padded
\* operator; the first operand contracts only row legs of acted-on slots,
\* the third only their column legs; the result lists the row legs of all
\* slots in slot order, then the column legs; untouched slots keep their indices.
OperatorMatrixPlanConjugates ==
    Done("apply_operator_matrix") =>
        LET p == plan.einsum
            n == Len(plan.state_objs)
            m == Len(plan.objs)
            pos == Positions(plan.state_objs, plan.objs)
        IN  /\ plan.exc = ""
            /\ plan.result =
                   FlattenMatrix(Conjugated(
                       PaddedOperator(Operator(plan), dims(plan.state_objs), pos),
                       Unflatten(MatrixState(plan), Prod(dims(plan.state_objs)))))
            /\ \A j \in 1..m :
                   /\ p.inputs[1][m + j] = p.inputs[2][pos[j]]
                   /\ p.inputs[3][m + j] = p.inputs[2][n + pos[j]]
                   /\ ~In(p.inputs[1][j], p.inputs[2] \o p.inputs[3])
                   /\ ~In(p.inputs[3][j], p.inputs[2] \o p.inputs[1])
            /\ Len(p.output) = 2 * n
            /\ \A i \in 1..n :
                   IF In(plan.state_objs[i], plan.objs)
                   THEN /\ p.output[i] = p.inputs[1][IndexIn(plan.objs, plan.state_objs[i])]
                        /\ p.output[n + i] = p.inputs[3][IndexIn(plan.objs, plan.state_objs[i])]
                   ELSE /\ p.output[i] = p.inputs[2][i]
                        /\ p.output[n + i] = p.inputs[2][n + i]

\* an operator applied to the second of two slots of a density matrix
OperatorMatrixApplied ==
    /\ Done("apply_operator_matrix")
    /\ plan.state_objs = <<1, 2>>
    /\ plan.objs = <<2>>
    /\ plan.tensor = "dense"
    /\ plan.exc = ""
    /\ plan.einsum = [inputs |-> <<<<"e", "b">>, <<"a", "b", "c", "d">>, <<"f", "d">>>>,
                      output |-> <<"a", "e", "c", "f">>]

\* C8: applying the plan of trace_out_matrix to a density tensor yields the
\* partial trace over the dropped slots, whatever their number and their
\* dimensions: each dropped slot's row leg is summed against its own column
\* leg, independently of the other dropped slots; each kept slot keeps
\* distinct row and column indices, in the output in slot order.
TraceOutMatrixIsPartialTrace ==
    Done("trace_out_matrix") =>
        LET p == plan.einsum
            n == Len(plan.state_objs)
            legs == p.inputs[1]
            kept == KeptPositions(plan.state_objs, plan.objs)
        IN  /\ plan.exc = ""
            /\ plan.result = PartialTrace(MatrixState(plan), dims(plan.state_objs), kept)
            /\ \A i \in 1..n :
                   IF In(plan.state_objs[i], plan.objs)
                   THEN legs[i] # legs[n + i]
                   ELSE /\ legs[i] = legs[n + i]
                        /\ Count(legs[i], legs) = 2
            /\ p.output = [k \in 1..Len(kept) |-> legs[kept[k]]]
                              \o [k \in 1..Len(kept) |-> legs[n + kept[k]]]

\* two slots dropped by the trace_out_matrix plan, one kept
TraceOutMatrixDroppedTwo ==
    /\ Done("trace_out_matrix")
    /\ plan.state_objs = <<1, 3, 2>>
    /\ plan.objs = <<2>>
    /\ plan.exc = ""
    /\ plan.einsum = [inputs |-> <<<<"a", "a", "b", "a", "a", "c">>>>,
                      output |-> <<"b", "c">>]

\* what the trace_out_vector plan gives the kept slots and the column axis:
\* each kept slot its own index, once in the input and once in the output,
\* in slot order; the trailing column index last on both sides
TraceOutVectorKeeps ==
    LET p == plan.einsum
        n == Len(plan.state_objs)
        legs == p.inputs[1]
        kept == KeptPositions(plan.state_objs, plan.objs)
    IN  /\ plan.exc = ""
        /\ Len(legs) = n + 1
        /\ p.output = [k \in 1..Len(kept) |-> legs[kept[k]]] \o <<legs[n + 1]>>
        /\ \A k \in 1..Len(kept) :
               Count(legs[kept[k]], legs) = 1 /\ Count(legs[kept[k]], p.output) = 1
        /\ Count(legs[n + 1], legs) = 1 /\ Count(legs[n + 1], p.output) = 1
Dropped(c) ==
    {i \in 1..Len(c.state_objs) : ~In(c.state_objs[i], c.objs)}

\* C9 as stated: in the plan of trace_out_vector the legs of all dropped
\* slots collapse to one single shared index.
TraceOutVectorSharesDropped ==
    Done("trace_out_vector") =>
        /\ TraceOutVectorKeeps
        /\ \A i \in Dropped(plan) : \A j \in Dropped(plan) :
               plan.einsum.inputs[1][i] = plan.einsum.inputs[1][j]

\* C9: in the plan of trace_out_vector each kept slot has its own index, once
\* in the input and once in the output in slot order, the trailing column
\* index is last on both sides, and each dropped slot has an index of its
\* own that occurs once in the input and not in the output.
TraceOutVectorSumsDropped ==
    Done("trace_out_vector") =>
        /\ TraceOutVectorKeeps
        /\ \A i \in Dropped(plan) :
               /\ Count(plan.einsum.inputs[1][i], plan.einsum.inputs[1]) = 1
               /\ Count(plan.einsum.inputs[1][i], plan.einsum.output) = 0

\* two slots dropped by the trace_out_vector plan, one kept
TraceOutVectorDroppedTwo ==
    /\ Done("trace_out_vector")
    /\ plan.state_objs = <<1, 2, 3>>
    /\ plan.objs = <<2>>
    /\ plan.exc = ""
    /\ plan.einsum = [inputs |-> <<<<"a", "b", "c", "d">>>>, output |-> <<"b", "d">>]

\* C10: in the measure plans every slot outside the exposed subset carries
\* the same index on its row and its column leg, so that it is traced, every
\* exposed slot carries free indices of its own that are in the output, and
\* applying the plan yields the reduced state of the exposed subset.
MeasurePlanIsMarginal ==
    LET p == plan.einsum
        n == Len(plan.state_objs)
        legs == p.inputs[1]
        kept == KeptPositions(plan.state_objs, plan.objs)
    IN  /\ Done("measure_matrix") =>
            /\ plan.exc = ""
            /\ \A i \in 1..n :
                   IF In(plan.state_objs[i], plan.objs)
                   THEN /\ Count(legs[i], legs) = 1 /\ Count(legs[i], p.output) = 1
                        /\ Count(legs[n + i], legs) = 1 /\ Count(legs[n + i], p.output) = 1
                   ELSE legs[i] = legs[n + i]
            /\ plan.result = PartialTrace(MatrixState(plan), dims(plan.state_objs), kept)
        /\ Done("measure_vector") =>
            /\ plan.exc = ""
            /\ \A k \in 1..Len(kept) :
                   Count(legs[kept[k]], legs) = 1 /\ Count(legs[kept[k]], p.output) = 1
            /\ plan.tensor = "basis" =>
                   plan.result =
                       [a \in 0..(Prod(SubShape(dims(plan.state_objs), kept)) - 1) |->
                           IF a = SubIndex(BasisIndex(dims(plan.state_objs)), kept,
                                           dims(plan.state_objs))
                           THEN One ELSE Zero]

\* a measure_matrix plan that exposes the first of two slots
MeasureMatrixExposedOne ==
    /\ Done("measure_matrix")
    /\ plan.state_objs = <<1, 3>>
    /\ plan.objs = <<1>>
    /\ plan.tensor = "dense"
    /\ plan.exc = ""
    /\ plan.einsum = [inputs |-> <<<<"a", "b", "c", "d">>>>, output |-> <<"a", "c">>]

\* one list is a permutation of the other: same length, every label of the
\* one exactly once in the other
Permutes(out, in) ==
    /\ Len(out) = Len(in)
    /\ \A i \in 1..Len(in) : Count(in[i], in) = 1 /\ Count(in[i], out) = 1

\* C11: the reorder plan for (S, P) followed by the reorder plan for (P, S)
\* restores the original tensor exactly, for reorder_vector and for
\* reorder_matrix; the output index list of each plan is a permutation of its
\* input index list that keeps the trailing column index last (vector), and
\* keeps the row legs before the column legs, both blocks in the same slot
\* order (matrix).
ReorderRoundTripRestores ==
    LET p == plan.einsum
        n == Len(plan.state_objs)
        legs == p.inputs[1]
    IN  /\ (plan.fn = "reorder_vector" /\ plan.pc \in {"done", "back"}) =>
            /\ plan.exc = ""
            /\ Permutes(p.output, legs)
            /\ p.output[n + 1] = legs[n + 1]
        /\ (plan.fn = "reorder_matrix" /\ plan.pc \in {"done", "back"}) =>
            /\ plan.exc = ""
            /\ Permutes(p.output, legs)
            /\ \A j \in 1..n : \E k \in 1..n :
                   p.output[j] = legs[k] /\ p.output[n + j] = legs[n + k]
        /\ (plan.fn = "reorder_vector" /\ plan.pc = "back") =>
            plan.result = VectorState(Returning(plan))
        /\ (plan.fn = "reorder_matrix" /\ plan.pc = "back") =>
            plan.result = MatrixState(Returning(plan))

\* three slots of dimensions 2, 3, 2 rotated and brought back
ReorderedThereAndBack ==
    /\ plan.pc = "back"
    /\ plan.fn = "reorder_vector"
    /\ plan.state_objs = <<2, 3, 1>>
    /\ plan.objs = <<1, 2, 3>>
    /\ plan.tensor = "dense"
    /\ plan.einsum = [inputs |-> <<<<"b", "c", "d", "a">>>>,
                      output |-> <<"d", "b", "c", "a">>]
    /\ plan.result = DenseVector(12)

\* the state of a subsystem as a vector / as a density matrix
AsVector(r) ==
    IF r.expansion_level = Label THEN Basis(r.dimensions, r.label) ELSE r.state_vector
AsMatrix(r) ==
    IF r.expansion_level = Matrix THEN r.density_matrix ELSE Outer(AsVector(r))
Max(a, b) == IF a > b THEN a ELSE b
Standalone(r) == ~r.measured /\ r.index = NoIndex
Released(r) ==
    r.label = NoLabel /\ r.state_vector = NoArray /\ r.density_matrix = NoArray

\* C12: after Envelope.combine(), from every pair of starting levels of fock
\* and polarization, both subsystems are at the higher of the two starting
\* levels (at least Vector), exactly one of composite_vector and
\* composite_matrix is populated, the one of that level, it is the Kronecker
\* product fock (x) polarization, fock has position 0 and polarization
\* position 1, and neither subsystem keeps a private copy of its data.
CombineFormsProduct ==
    [][(/\ ret'.op = "combine"
        /\ ~envelope.measured
        /\ envelope.composite_vector = NoArray
        /\ envelope.composite_matrix = NoArray
        /\ Standalone(subsystem[FOCK])
        /\ Standalone(subsystem[POLARIZATION]))
       => LET f == subsystem[FOCK]
              q == subsystem[POLARIZATION]
              level == Max(Max(f.expansion_level, q.expansion_level), Vector)
              d == f.dimensions
          IN  /\ ret'.exc = ""
              /\ subsystem'[FOCK].expansion_level = level
              /\ subsystem'[POLARIZATION].expansion_level = level
              /\ subsystem'[FOCK].index = 0
              /\ subsystem'[POLARIZATION].index = 1
              /\ Released(subsystem'[FOCK])
              /\ Released(subsystem'[POLARIZATION])
              /\ IF level = Vector
                 THEN /\ envelope'.composite_matrix = NoArray
                      /\ envelope'.composite_vector =
                             [i \in 0..(2 * d - 1) |->
                                 CMul(AsVector(f)[i \div 2], AsVector(q)[i % 2])]
                 ELSE /\ envelope'.composite_vector = NoArray
                      /\ envelope'.composite_matrix =
                             [i \in 0..(2 * d - 1) |-> [j \in 0..(2 * d - 1) |->
                                 CMul(AsMatrix(f)[i \div 2][j \div 2],
                                      AsMatrix(q)[i % 2][j % 2])]]]_vars

\* a fock at Label combined with a polarization in a superposition
CombinedFromUnequalLevels ==
    /\ ret.op = "combine"
    /\ ret.exc = ""
    /\ subsystem[FOCK].index = 0
    /\ subsystem[FOCK].expansion_level = Vector
    /\ subsystem[FOCK].dimensions = 3
    /\ envelope.composite_vector =
           [i \in 0..5 |-> IF i = 4 THEN <<3, 0, 5>> ELSE IF i = 5 THEN <<4, 0, 5>> ELSE Zero]

Listed(e) == \E i \in DOMAIN composite_envelopes : composite_envelopes[i] = e

\* C13: after every destructive Envelope.measure that returns, whatever
\* remove_composite is and whether the Envelope was standalone or combined,
\* the Envelope and both its subsystems are measured, composite_vector and
\* composite_matrix are released, and the Envelope is in no composite
\* envelope's list.
DestructiveMeasureDetaches ==
    [][(/\ ret'.op = "measure"
        /\ ret'.exc = ""
        /\ ~envelope.measured
        /\ ret'.args[1] = FALSE)
       => /\ envelope'.measured
          /\ \A s \in Subsystems : subsystem'[s].measured
          /\ envelope'.composite_vector = NoArray
          /\ envelope'.composite_matrix = NoArray
          /\ envelope'.composite_envelope = NoComposite
          /\ ~Listed(ENV)']_vars

\* a destructively measured Envelope that its composite envelope still lists
MeasuredStillListed ==
    /\ ret.op = "measure"
    /\ ret.args = <<FALSE, FALSE>>
    /\ ret.exc = ""
    /\ envelope.measured
    /\ \A s \in Subsystems : subsystem[s].measured
    /\ envelope.composite_envelope # NoComposite
    /\ Listed(ENV)

\* E rho E^dagger / Tr(E rho E^dagger)
Collapsed(rho, E) ==
    With(Conjugated(E, rho), LAMBDA m :
        [i \in DOMAIN m |-> [j \in DOMAIN m |-> CDiv(m[i][j], Trace(m))]])

\* C14: measure_POVM on an unmeasured subsystem of an unmeasured Envelope,
\* standalone or with a position inside the Envelope, returns and honours
\* destructive: with destructive=True the subsystem is measured and holds no
\* state; with destructive=False it is not measured, is at Matrix level and
\* holds E rho E^dagger / Tr(E rho E^dagger) for the sampled outcome.
POVMHonoursDestructive ==
    [][\A s \in Subsystems :
        (/\ ret'.op = "measure_POVM"
         /\ ret'.target = s
         /\ ~envelope.measured
         /\ \A t \in Subsystems : ~subsystem[t].measured)
        => LET destructive == ret'.args[2]
               operators == OperatorSet(ret'.args[1], subsystem[s].dimensions)
           IN  /\ ret'.exc = ""
               /\ IF destructive
                  THEN subsystem'[s].measured /\ Released(subsystem'[s])
                  ELSE /\ ~subsystem'[s].measured
                       /\ subsystem'[s].expansion_level = Matrix
                       /\ subsystem[s].index = NoIndex
                              => subsystem'[s].density_matrix =
                                     Collapsed(AsMatrix(subsystem[s]),
                                               operators[ret'.outcome + 1])]_vars

\* measure_POVM called on a subsystem that has a position inside the Envelope
POVMOnPositionedRaised ==
    /\ ret.op = "measure_POVM"
    /\ ret.target = POLARIZATION
    /\ ret.args = <<"projectors", TRUE, TRUE>>
    /\ ret.exc = "AttributeError"
    /\ subsystem[POLARIZATION].index = 1
    /\ ~subsystem[POLARIZATION].measured
    /\ envelope.composite_vector # NoArray

Paired(s) == IF s = FOCK THEN POLARIZATION ELSE FOCK

\* C15: a measure_POVM with partial=False that returns, on a subsystem that
\* belongs to an Envelope, measures the paired subsystem (the polarization
\* for the fock, the fock for the polarization) and returns a mapping that
\* holds the paired subsystem's outcome and no outcome of the measured
\* subsystem itself; with partial=True the paired subsystem is left as it
\* was and the mapping is empty.
POVMMeasuresPaired ==
    [][\A s \in Subsystems :
        (/\ ret'.op = "measure_POVM"
         /\ ret'.target = s
         /\ ret'.exc = ""
         /\ ~envelope.measured
         /\ \A t \in Subsystems : ~subsystem[t].measured)
        => IF ret'.args[3]
           THEN /\ ret'.others = {}
                /\ subsystem'[Paired(s)] = subsystem[Paired(s)]
           ELSE /\ ret'.others = {Paired(s)}
                /\ subsystem'[Paired(s)].measured]_vars

\* measure_POVM with partial=False on the fock returned the fock's own
\* outcome in the mapping and left the polarization unmeasured
POVMMeasuredFockTwice ==
    /\ ret.op = "measure_POVM"
    /\ ret.target = FOCK
    /\ ret.args = <<"projectors", FALSE, FALSE>>
    /\ ret.exc = ""
    /\ ret.others = {FOCK}
    /\ subsystem[FOCK].measured
    /\ ~subsystem[POLARIZATION].measured

\* C16: every sampling operation that returns (measure_POVM of one
\* subsystem, Envelope.measure on a vector or matrix composite) draws its
\* outcome from the Config key stream: it advances Config._key by exactly
\* one split, so that the outcomes after set_seed are a function of the seed.
SamplingAdvancesKeyOnce ==
    [][(/\ ret'.exc = ""
        /\ ~envelope.measured
        /\ \/ ret'.op = "measure_POVM" /\ ret'.args[3]
           \/ /\ ret'.op = "measure"
              /\ \/ envelope.composite_vector # NoArray
                 \/ envelope.composite_matrix # NoArray)
       => config'._key = split(config._key)[2]]_vars

\* Envelope.measure sampled outcome 1 from a vector composite in which the
\* outcomes 0 and 1 are both possible, and the key stream is where set_seed
\* left it
SampledWithoutKey ==
    /\ ret.op = "measure"
    /\ ret.args[1] = TRUE
    /\ ret.exc = ""
    /\ ret.outcome = 1
    /\ envelope.composite_vector # NoArray
    /\ envelope.composite_vector[0] # Zero
    /\ config._key = PRNGKey(config._random_seed)

\* ------------------------------------------------------------------------
\* Properties of the dimension estimator (FairSpecDimensions)
\* ------------------------------------------------------------------------
Returned == estimator.pc = "returned" /\ estimator.n > 0
\* the next _increase_dimensions(5) would pass MaxEstimate
OutOfRange == estimator.fd.dimensions + 5 > MaxEstimate

\* C17: compute_dimensions terminates for every state array (vector (d,1),
\* matrix (d,d) or any other shape), every operation and every threshold:
\* the loop of _compute_dimensions and _increase_dimensions(5) eventually
\* gets a positive result and returns it (or has grown the array as far as
\* MaxEstimate).
ComputeDimensionsTerminates == <>(Returned \/ OutOfRange)

\* _compute_dimensions has answered -1 for an array of shape (d,), which
\* _increase_dimensions does not pad
StuckOnOtherShape ==
    /\ estimator.pc = "increase"
    /\ estimator.n = -1
    /\ estimator.fd.shape = <<estimator.fd.dimensions>>
    /\ increase_dimensions(estimator.fd, 5) = estimator.fd

\* ------------------------------------------------------------------------
\* Further properties of the Envelope lifecycle (Spec)
\* ------------------------------------------------------------------------
\* C18: after combine of normalised subsystems and any sequence of
\* apply_operation calls the composite vector has unit 2-norm and the
\* composite matrix has unit trace, and a following Envelope.measure does not
\* fail on probabilities that do not sum to 1.
NormalizationKept ==
    /\ envelope.composite_vector # NoArray
           => norm2_vector(envelope.composite_vector) = One
    /\ envelope.composite_matrix # NoArray
           => Trace(envelope.composite_matrix) = One
    /\ ret.op = "measure" => ret.exc \notin {"AssertionError", "ValueError"}

\* a renormalising operation has left the composite matrix with trace 7/5
RenormalizedOffTrace ==
    /\ ret.op = "apply_operation"
    /\ ret.exc = ""
    /\ ret.args[1].renormalize
    /\ envelope.composite_matrix # NoArray
    /\ Trace(envelope.composite_matrix) = <<7, 0, 5>>

\* ------------------------------------------------------------------------
\* Further properties of the representation state machine (SpecSubsystem)
\* ------------------------------------------------------------------------
\* C19: apply_kraus with a well-shaped operator set that does not sum to the
\* identity, on an unmeasured subsystem: with identity_check=True the call is
\* rejected with an error; with identity_check=False it returns, and (no
\* contraction following) the subsystem holds the sum of K rho K^dagger.
IdentityCheckDecides ==
    [][\A s \in Subsystems :
        (/\ ret'.op = "apply_kraus"
         /\ ret'.target = s
         /\ ret'.args[1] = "incomplete"
         /\ ~subsystem[s].measured)
        => IF ret'.args[2]
           THEN ret'.exc = "ValueError"
           ELSE /\ ret'.exc = ""
                /\ ~contractions(config)
                       => subsystem'[s].density_matrix =
                              Conjugated(Projector(subsystem[s].dimensions, 0),
                                         AsMatrix(subsystem[s]))]_vars

\* apply_kraus(identity_check=False) rejected for the missing completeness
UncheckedKrausRejected ==
    /\ ret.op = "apply_kraus"
    /\ ret.args = <<"incomplete", FALSE>>
    /\ ret.exc = "ValueError"
    /\ ~subsystem[ret.target].measured
    /\ subsystem[ret.target].expansion_level = Matrix

FirstNonZero(v) == CHOOSE k \in DOMAIN v :
    v[k] # Zero /\ \A i \in DOMAIN v : i < k => v[i] = Zero

\* C20: when contract takes a pure density matrix from Matrix to Vector, the
\* first nonzero amplitude of the vector it stores is real and positive,
\* whatever phase the eigendecomposition gave the eigenvector and also when
\* the amplitude at index 0 is zero.
ContractFixesPhase ==
    [][\A s \in Subsystems :
        (/\ ret'.op = "contract"
         /\ ret'.target = s
         /\ ret'.exc = ""
         /\ ~subsystem[s].measured
         /\ subsystem[s].expansion_level = Matrix
         /\ subsystem'[s].expansion_level = Vector)
        => LET v == subsystem'[s].state_vector
               a == v[FirstNonZero(v)]
           IN  a[2] = 0 /\ a[1] > 0]_vars

\* contract has stored the eigenvector i|1> of |1><1| with its phase
\* unchanged
ContractKeptPhase ==
    /\ ret.op = "contract"
    /\ ret.target = FOCK
    /\ ret.exc = ""
    /\ subsystem[FOCK].dimensions = 2
    /\ subsystem[FOCK].expansion_level = Vector
    /\ subsystem[FOCK].state_vector = VScale(Basis(2, 1), ImagI)

\* ------------------------------------------------------------------------
\* Properties of the dimension estimator (SpecDimensions)
\* ------------------------------------------------------------------------
IsVectorShape(fd) == fd.shape = <<fd.shape[1], 1>>
IsMatrixShape(fd) == fd.shape = <<fd.shape[1], fd.shape[1]>>

\* b is a zero-padded at its end: the entries of a are at their positions
\* and every further entry is 0
ZeroPadded(a, b) ==
    /\ IsVectorShape(a) =>
          /\ b.shape = <<b.shape[1], 1>>
          /\ DOMAIN b.state = 0..(b.shape[1] - 1)
          /\ \A i \in DOMAIN b.state :
                b.state[i] = IF i < a.shape[1] THEN a.state[i] ELSE Zero
    /\ (IsMatrixShape(a) /\ ~IsVectorShape(a)) =>
          /\ b.shape = <<b.shape[1], b.shape[1]>>
          /\ DOMAIN b.state = 0..(b.shape[1] - 1)
          /\ \A i \in DOMAIN b.state :
                /\ DOMAIN b.state[i] = 0..(b.shape[1] - 1)
                /\ \A j \in DOMAIN b.state[i] :
                      b.state[i][j] = IF i < a.shape[1] /\ j < a.shape[1]
                                      THEN a.state[i][j] ELSE Zero

\* C21: throughout compute_dimensions, for a state of shape (d,1) or (d,d),
\* self.dimensions equals state.shape[0] before and after every step, no step
\* decreases it, the step after a failed trial grows it by exactly 5, and
\* every growth pads the array with zeros behind its existing entries, which
\* keep their positions and values.
DimensionsGrowByPadding ==
    [][(IsVectorShape(estimator.fd) \/ IsMatrixShape(estimator.fd)) =>
          /\ estimator.fd.dimensions = estimator.fd.shape[1]
          /\ estimator'.fd.dimensions = estimator'.fd.shape[1]
          /\ estimator'.fd.dimensions >= estimator.fd.dimensions
          /\ estimator.pc = "increase" =>
                /\ estimator.n <= 0
                /\ estimator'.fd.dimensions = estimator.fd.dimensions + 5
          /\ estimator.pc = "loop" => estimator'.fd = estimator.fd
          /\ ZeroPadded(estimator.fd, estimator'.fd)]_vars

\* a density matrix that failed its first trial at MaxDim and is tried again
\* at MaxDim + 5, padded with zero rows and columns
MatrixGrownByFive ==
    /\ estimator.pc = "loop"
    /\ estimator.n = -1
    /\ estimator.fd.dimensions = MaxDim + 5
    /\ estimator.fd.shape = <<MaxDim + 5, MaxDim + 5>>
    /\ estimator.fd.state[MaxDim - 1][MaxDim - 1] = One
    /\ estimator.fd.state[MaxDim + 4][MaxDim + 4] = Zero

\* ------------------------------------------------------------------------
\* Frame of the non-destructive Envelope.measure (Spec)
\* ------------------------------------------------------------------------
\* C22: Envelope.measure(non_destructive=True) on a combined envelope (one
\* that holds composite_vector or composite_matrix) changes nothing: the
\* composite arrays, the measured flags of the envelope and of both
\* subsystems, the positions of the subsystems and the membership in the
\* composite envelope are as before, whatever outcome was sampled; the
\* envelope is left unmeasured, and the call itself is not refused with
\* EnvelopeAlreadyMeasuredException however many such calls came before.
NonDestructiveMeasureKeepsState ==
    [][(/\ ret'.op = "measure"
        /\ ret'.args[1] = TRUE
        /\ ~envelope.measured
        /\ \/ envelope.composite_vector # NoArray
           \/ envelope.composite_matrix # NoArray)
       => /\ UNCHANGED <<subsystem, envelope, composite_envelopes>>
          /\ ~envelope'.measured
          /\ ret'.exc # "EnvelopeAlreadyMeasuredException"]_vars

\* a non-destructive Envelope.measure returned outcome 1 from a matrix
\* composite that still holds weight on outcome 0, with the envelope still a
\* member of its composite envelope and both subsystems still positioned
MeasuredMatrixNotCollapsed ==
    /\ ret.op = "measure"
    /\ ret.args[1] = TRUE
    /\ ret.exc = ""
    /\ ret.outcome = 1
    /\ ~envelope.measured
    /\ envelope.composite_matrix # NoArray
    /\ envelope.composite_matrix[0][0] # Zero
    /\ envelope.composite_envelope # NoComposite
    /\ \A s \in Subsystems : subsystem[s].index # NoIndex /\ ~subsystem[s].measured

\* ------------------------------------------------------------------------
\* Properties of the Config singleton (SpecConfig)
\* ------------------------------------------------------------------------
\* the key held after k reads of random_key since the seed s was set, and
\* the key the k-th of these reads returns
RECURSIVE Stored(_, _)
Stored(s, k) == IF k = 0 THEN PRNGKey(s) ELSE split(Stored(s, k - 1))[2]
KthKey(s, k) == split(Stored(s, k - 1))[1]

\* C23: Config is one process-wide stream.  Every Config() returns the same
\* instance, and no Config() after the first resets seed or key: the seed is
\* the one of the first construction or of the last set_seed.  Every read of
\* random_key advances the stored key, and for any interleaving of reads by
\* different callers the k-th key read since the seed s was set is a function
\* of s and k alone, and no two of these keys are equal.
ConfigIsOneStream ==
    /\ Len(config_class.objects) <= 1
    /\ \A c \in Callers : config_class.handle[c] \in {0, config_class._instance}
    /\ config_class._instance # 0 =>
          /\ config_class.objects[config_class._instance]._random_seed
                = config_class.origin.seed
          /\ config_class.objects[config_class._instance]._key
                = Stored(config_class.origin.seed, Len(config_class.reads))
          /\ \A k \in 1..Len(config_class.reads) :
                config_class.reads[k].key = KthKey(config_class.origin.seed, k)
          /\ \A i, j \in 1..Len(config_class.reads) :
                i # j => config_class.reads[i].key # config_class.reads[j].key

\* after set_seed, two callers have read MaxReads keys between them, and a
\* Config() evaluated after these reads has returned
ConstructedAfterInterleavedReads ==
    /\ ret.op = "Config"
    /\ config_class.origin.by = "set_seed"
    /\ Len(config_class.reads) = MaxReads
    /\ config_class.reads[1].caller # config_class.reads[2].caller
    /\ \A c \in Callers : config_class.handle[c] # 0

====
